---- MODULE Spec2Model ----
(***************************************************************************)
(* A model of the streaming core of milbserver: the proxy handlers of      *)
(* index.js (requestRetry, getKey, getMasterPlaylist, /playlist, /ts) and  *)
(* the session class (streamVideo, httpGet, getSkipMarkers, getDayData).   *)
(* Each part of the program is a group of variables with its own           *)
(* specification; the groups not exercised by a specification stay parked  *)
(* at their initial value.                                                 *)
(***************************************************************************)
EXTENDS Integers, Sequences, FiniteSets, TLC

(***************************************************************************)
(* Bounds of the model.                                                    *)
(***************************************************************************)
\* number of client requests the server machine follows
NReq == 2
\* number of lines of a master playlist behind its #EXTM3U line
MaxMasterLines == 3

(***************************************************************************)
(* Program constants.                                                      *)
(***************************************************************************)
\* index.js:285  var tries = 2
RETRY_TRIES == 2
\* index.js:290  setTimeout(action, 1000)
RETRY_DELAY_MS == 1000
\* part_001:453  if ( tries == 1 ) process.exit(1)
EXIT_ON_TRIES == 1

VARIABLES
  \* ---- the server process and its in-flight client requests ----
  alive,       \* the node process is running (FALSE after process.exit)
  kind,        \* kind[r]: the route of request r, "none" before it arrives
  keyParam,    \* keyParam[r]: the key query parameter of a /ts request
  pc,          \* pc[r]: where the handler of request r stands
  stage,       \* stage[r]: which requestRetry call is running, "main" or "key"
  tries,       \* tries[r]: the tries variable of the running requestRetry call
  timer,       \* timer[r]: delay (ms) of the pending setTimeout, 0 when none
  calls,       \* calls[r]: requestRetry calls made for request r
  cbs,         \* cbs[r]: requestRetry callbacks invoked for request r
  attempts,    \* attempts[r]: upstream requests issued by streamVideo for r
  resp,        \* resp[r]: what the client has received
  logs,        \* logs[r]: messages logged for request r
  body,        \* body[r]: the lines of the body last fetched for r, <<>> before
  prevKeys,    \* prevKeys[k]: the key cache entry of key URL k
  keyFetches,  \* keyFetches[r]: requestRetry calls getKey made for request r
  keyAttempts, \* keyAttempts[r]: upstream key requests issued for request r
  pred,        \* pred[r]: the requests already answered when r arrived
  media,       \* cache.media[gamePk]: the cached stream URL
  \* ---- getMasterPlaylist: one rewrite of a fetched master playlist ----
  mLines,      \* the lines of the fetched body
  mOptions,    \* the options of the /stream.m3u8 request
  mOut,        \* the lines sent to the client
  mDone,       \* the rewritten body has been sent
  \* ---- /playlist: one rewrite of a fetched media playlist ----
  meLines,     \* the lines of the fetched body
  meOptions,   \* the playlist URL, the options of the request and the cached markers
  meOut,       \* the lines sent to the client
  meThrew,     \* the callback threw before it responded
  meDone,      \* the callback has run
  \* ---- getSkipMarkers: one run over the play-by-play data of a game ----
  skip_type,            \* index of the skip policy in VALID_SKIP
  skip_adjust,          \* the manual adjustment, seconds
  start_inning,         \* the inning filter, 0 for none
  start_inning_half,    \* 'top' or 'bottom'
  final_inning,         \* the inning of the last play of the data
  clock,                \* startTime of the event last read, seconds after the broadcast start
  play,                 \* allPlays[i]: inning, half and review of the play being read
  evJ,                  \* j: index of the next event of the play
  playOpen,             \* the play being read has events left
  prevEvent,            \* playEvents[j-1]
  break_start,          \* where the running break starts, or not a number
  previous_inning,      \* inning of the last marker
  previous_inning_half, \* half of the last marker
  skip_markers,         \* the list being built
  nEvents,              \* events read so far
  skPc,                 \* "loop", "stored" or "threw"
  stored,               \* temp_cache[gamePk].skip_markers, read once skPc is "stored"
  seen,               \* what the loops have read: the category of the last event, the play of
                      \* the last marker, a break event since it, break events since the last action,
                      \* an action past the start inning, the actionPlayId of the last event
  \* ---- getDayData: the schedule of one date and its cache entry ----
  now,               \* the clock, seconds
  nTicks,            \* how often the clock has advanced
  dateString,        \* the date asked for, against today: "past", "yesterday", "today", "future"
  schedule,          \* dates[0].games as the upstream serves it
  dayPc,             \* "idle", "fetching", or how the last call ended
  currentDate,       \* currentDate of the running call
  cache_file_exists, \* the payload file of the key exists
  cache_file,        \* the games of the payload file
  expirySet,         \* cache.dates[cache_name].dateCacheExpiry is set
  dateCacheExpiry,   \* cache.dates[cache_name].dateCacheExpiry
  \* ---- getGamedayData: the live feed of one game and its cache entry ----
  gdPc,               \* "idle", "fetching", or how the last call ended
  gdCurrentDate,      \* currentDate of the running call
  gdFileExists,       \* the payload file of the key exists
  gdFile,             \* the feed of the payload file
  gdExpirySet,        \* cache.gameday[cache_name].gamedayCacheExpiry is set
  gamedayCacheExpiry, \* cache.gameday[cache_name].gamedayCacheExpiry
  \* ---- getStreamURL: the playback URL of one game and its cache entry ----
  suPc,               \* "idle", "fetching", or how the last call ended
  suCalled,           \* when the running or last call started
  streamURL,          \* cache.media[gamePk].streamURL, 0 while undefined
  streamURLExpiry,    \* cache.media[gamePk].streamURLExpiry, once streamURL is set
  suStored,           \* when cacheStreamURL last ran
  suReturned,         \* what the last call returned, 0 for undefined
  \* ---- temp_cache[gamePk].skip_markers over the calls of getSkipMarkers ----
  tcSet,              \* temp_cache[gamePk].skip_markers is defined
  tcMarkers,          \* temp_cache[gamePk].skip_markers
  gsData,             \* the play-by-play data the last call of getSkipMarkers found
  gsCalls,            \* calls of getSkipMarkers so far
  tcLinks,            \* per answered /stream.m3u8 request: the data and the list of its call
  plFor,              \* the /stream.m3u8 request whose link the /playlist request follows
  \* ---- getDayData: concurrent calls for one date of today ----
  rcPc,               \* rcPc[c]: "idle", "fetching", or how the call of caller c ended
  rcCurrentDate,      \* rcCurrentDate[c]: currentDate of the call of caller c
  rcFetches,          \* upstream answers so far; the n-th answer is fetch n
  rcFile,             \* the fetch whose payload is in the payload file, 0 for no file
  rcExpiryOf,         \* the fetch whose expiry is stored, 0 for none
  rcExpiry,           \* cache.dates[cache_name].dateCacheExpiry
  \* ---- the handler of /stream.m3u8, one run for each client request ----
  shPc,               \* shPc[h]: the await the handler of request h stands at
  shQuery,            \* shQuery[h]: what the query names: "sample", "src", "gamePk", "teamId"
  shSkips,            \* shSkips[h]: the query has an inning or skip option
  shGamePk,           \* shGamePk[h]: gamePk is set
  shEnds              \* shEnds[h]: calls that ended the response (res.end, res.error)

masterVars == <<mLines, mOptions, mOut, mDone>>

mediaVars == <<meLines, meOptions, meOut, meThrew, meDone>>

skipVars == <<skip_type, skip_adjust, start_inning, start_inning_half, final_inning, clock,
              play, evJ, playOpen, prevEvent, break_start, previous_inning, previous_inning_half,
              skip_markers, nEvents, skPc, stored, seen>>

dayVars == <<now, nTicks, dateString, schedule, dayPc, currentDate, cache_file_exists,
             cache_file, expirySet, dateCacheExpiry>>

gamedayVars == <<gdPc, gdCurrentDate, gdFileExists, gdFile, gdExpirySet, gamedayCacheExpiry>>

streamVars == <<suPc, suCalled, streamURL, streamURLExpiry, suStored, suReturned>>

tempCacheVars == <<tcSet, tcMarkers, gsData, gsCalls, tcLinks, plFor>>

raceVars == <<rcPc, rcCurrentDate, rcFetches, rcFile, rcExpiryOf, rcExpiry>>

handlerVars == <<shPc, shQuery, shSkips, shGamePk, shEnds>>

serverVars == <<alive, kind, keyParam, pc, stage, tries, timer, calls, cbs,
                attempts, resp, logs, body, prevKeys, keyFetches, keyAttempts, pred,
                media>>

\* the variables of the other parts, parked while the server machine runs
otherThanServer ==
  <<masterVars, mediaVars, skipVars, dayVars, gamedayVars, streamVars, tempCacheVars, raceVars,
    handlerVars>>
otherThanMaster ==
  <<serverVars, mediaVars, skipVars, dayVars, gamedayVars, streamVars, tempCacheVars, raceVars,
    handlerVars>>
otherThanMedia ==
  <<serverVars, masterVars, skipVars, dayVars, gamedayVars, streamVars, tempCacheVars, raceVars,
    handlerVars>>
otherThanSkip ==
  <<serverVars, masterVars, mediaVars, dayVars, gamedayVars, streamVars, tempCacheVars, raceVars,
    handlerVars>>
otherThanDay ==
  <<serverVars, masterVars, mediaVars, skipVars, gamedayVars, streamVars, tempCacheVars, raceVars,
    handlerVars>>
otherThanGameday ==
  <<serverVars, masterVars, mediaVars, skipVars, dayVars, streamVars, tempCacheVars, raceVars,
    handlerVars>>
otherThanStream ==
  <<serverVars, masterVars, mediaVars, skipVars, dayVars, gamedayVars, tempCacheVars, raceVars,
    handlerVars>>

otherThanTempCache ==
  <<serverVars, masterVars, skipVars, dayVars, gamedayVars, streamVars, raceVars,
    handlerVars>>
otherThanRace ==
  <<serverVars, masterVars, mediaVars, skipVars, gamedayVars, streamVars, tempCacheVars,
    handlerVars>>

otherThanHandler ==
  <<serverVars, masterVars, mediaVars, skipVars, dayVars, gamedayVars, streamVars, tempCacheVars,
    raceVars>>

vars ==
  <<serverVars, masterVars, mediaVars, skipVars, dayVars, gamedayVars, streamVars, tempCacheVars,
    raceVars, handlerVars>>

Reqs == 1..NReq
KeyURLs == {"https://k/1", "https://k/2"}
\* the key parameter of /ts: absent, inline base64 material, or a key URL
KeyParams == {"none", "inline"} \cup KeyURLs

(***************************************************************************)
(* index.js 284-298: requestRetry, and part_001 435-455: streamVideo.      *)
(***************************************************************************)
\* the error branch of the callback requestRetry hands to streamVideo:
\*   if (tries-- > 0) return setTimeout(action, 1000); return cb(err)
requestRetryOnError(t) ==
  [retry |-> t > 0, tries |-> t - 1, delay |-> IF t > 0 THEN RETRY_DELAY_MS ELSE 0]

\* the .catch of streamVideo: if ( tries == 1 ) process.exit(1)
streamVideoExits(t) == t = EXIT_ON_TRIES

\* 'try N for u' is logged from the second failure on
retryLog(t) == IF t < RETRY_TRIES THEN {"try " \o ToString(3 - t)} ELSE {}

\* requestRetry(u, opts, cb): tries = 2 and the first action()
requestRetry(r, st) ==
  /\ stage' = [stage EXCEPT ![r] = st]
  /\ tries' = [tries EXCEPT ![r] = RETRY_TRIES]
  /\ calls' = [calls EXCEPT ![r] = @ + 1]
  /\ attempts' = [attempts EXCEPT ![r] = @ + 1]
  /\ pc' = [pc EXCEPT ![r] = "fetching"]

ServerInit ==
  /\ alive = TRUE
  /\ kind = [r \in Reqs |-> "none"]
  /\ keyParam = [r \in Reqs |-> "none"]
  /\ pc = [r \in Reqs |-> "idle"]
  /\ stage = [r \in Reqs |-> "main"]
  /\ tries = [r \in Reqs |-> 0]
  /\ timer = [r \in Reqs |-> 0]
  /\ calls = [r \in Reqs |-> 0]
  /\ cbs = [r \in Reqs |-> 0]
  /\ attempts = [r \in Reqs |-> 0]
  /\ resp = [r \in Reqs |-> "open"]
  /\ logs = [r \in Reqs |-> {}]
  /\ body = [r \in Reqs |-> <<>>]
  /\ prevKeys = [k \in KeyURLs |-> "undefined"]
  /\ keyFetches = [r \in Reqs |-> 0]
  /\ keyAttempts = [r \in Reqs |-> 0]
  /\ pred = [r \in Reqs |-> {}]
  /\ media = "none"

Answered(r) == resp[r] # "open"

\* requests are numbered in their order of arrival
Arrives(r) == pc[r] = "idle" /\ \A q \in Reqs : q < r => kind[q] # "none"

\* index.js 477-513 and 648-667: /playlist and /ts call requestRetry at once;
\* so does /stream.m3u8 when the src parameter names the stream (194-196, 235)
Request(r, k, kp) ==
  /\ UNCHANGED otherThanServer
  /\ alive /\ Arrives(r)
  /\ kind' = [kind EXCEPT ![r] = k]
  /\ keyParam' = [keyParam EXCEPT ![r] = IF k = "ts" THEN kp ELSE "none"]
  /\ pred' = [pred EXCEPT ![r] = {q \in Reqs : Answered(q)}]
  /\ requestRetry(r, "main")
  /\ UNCHANGED <<alive, timer, cbs, resp, logs, body, prevKeys, keyFetches, keyAttempts,
                 media>>

\* index.js 197-209: /stream.m3u8 with a gamePk awaits session.getStreamURL;
\* part_001 487-492: a cached, unexpired stream URL is returned without a fetch
RequestGame(r) ==
  /\ UNCHANGED otherThanServer
  /\ alive /\ Arrives(r)
  /\ kind' = [kind EXCEPT ![r] = "stream"]
  /\ pred' = [pred EXCEPT ![r] = {q \in Reqs : Answered(q)}]
  /\ IF media = "fresh"
       THEN /\ requestRetry(r, "main")
       ELSE /\ pc' = [pc EXCEPT ![r] = "httpGet"]
            /\ UNCHANGED <<stage, tries, calls, attempts>>
  /\ UNCHANGED <<alive, keyParam, timer, cbs, resp, logs, body, prevKeys, keyFetches,
                 keyAttempts, media>>

\* part_001 508-518 and index.js 213-239: the playback response arrives; a body
\* with a url is cached and the master playlist is fetched, any other body leaves
\* streamURL undefined and the handler ends the response empty
HttpGetResolves(r, hasUrl) ==
  /\ UNCHANGED otherThanServer
  /\ alive /\ pc[r] = "httpGet"
  /\ IF hasUrl
       THEN /\ media' = "fresh"
            /\ requestRetry(r, "main")
            /\ UNCHANGED <<resp, logs>>
       ELSE /\ pc' = [pc EXCEPT ![r] = "finished"]
            /\ resp' = [resp EXCEPT ![r] = "empty"]
            /\ logs' = [logs EXCEPT ![r] = @ \cup {"failed to get streamURL"}]
            /\ UNCHANGED <<stage, tries, calls, attempts, media>>
  /\ UNCHANGED <<alive, kind, keyParam, timer, cbs, body, prevKeys, keyFetches,
                 keyAttempts, pred>>

\* part_001 403-416: httpGet's catch logs and calls process.exit(1)
HttpGetFails(r) ==
  /\ UNCHANGED otherThanServer
  /\ alive /\ pc[r] = "httpGet"
  /\ alive' = FALSE
  /\ logs' = [logs EXCEPT ![r] = @ \cup {"http get failed"}]
  /\ UNCHANGED <<kind, keyParam, pc, stage, tries, timer, calls, cbs, attempts, resp,
                 body, prevKeys, keyFetches, keyAttempts, pred, media>>

\* part_001 312-319: the cached stream URL outlives its 60 seconds
StreamURLExpires ==
  /\ UNCHANGED otherThanServer
  /\ alive /\ media = "fresh"
  /\ media' = "expired"
  /\ UNCHANGED <<alive, kind, keyParam, pc, stage, tries, timer, calls, cbs, attempts,
                 resp, logs, body, prevKeys, keyFetches, keyAttempts, pred>>

(***************************************************************************)
(* index.js 320-340 and 518-538: the HLS check of a fetched body.          *)
(***************************************************************************)
\* the first lines of a fetched body, after body.trim().split('\n')
Bodies == { <<"#EXTM3U", "#EXT-X-VERSION:3">>, <<"<html>", "#EXTM3U">>, <<"">> }

RECURSIVE hlsScan(_, _)
\* for (i...) { '#EXTM3U' -> detected, break; '' -> continue; else break }
hlsScan(lines, i) ==
  IF i > Len(lines) THEN FALSE
  ELSE IF lines[i] = "#EXTM3U" THEN TRUE
  ELSE IF lines[i] = "" THEN hlsScan(lines, i + 1)
  ELSE FALSE

hls_detected(lines) == hlsScan(lines, 1)

(***************************************************************************)
(* index.js 246-261: getKey and its cache prevKeys.                        *)
(***************************************************************************)
\* a getKey that tests the entry only: typeof prevKeys[url] !== 'undefined'
keyCachedEntryOnly(k) == prevKeys[k] # "undefined"

\* typeof prevKeys[url] !== 'undefined' && typeof prevKeys[url].key !== 'undefined'
keyCached(k) == prevKeys[k] = "key"

\* a getKey that forgets the fetched key
storeKeyForgets(k) == prevKeys

\* a getKey with one slot (prevUrl, prevKey): storing a key drops the others
storeKeySingleSlot(k) == [j \in KeyURLs |-> IF j = k THEN "key" ELSE "undefined"]

\* prevKeys[url].key = response.body
storeKey(k) == [prevKeys EXCEPT ![k] = "key"]

\* if ( typeof prevKeys[url] === 'undefined' ) prevKeys[url] = {}
reserveKey(k) == [prevKeys EXCEPT ![k] = IF @ = "undefined" THEN "empty" ELSE @]

\* respond(proxy, res, body): the client receives the body
respond(r) ==
  /\ resp' = [resp EXCEPT ![r] = "body"]
  /\ pc' = [pc EXCEPT ![r] = "finished"]

(***************************************************************************)
(* The callback of requestRetry on a successful upstream response.         *)
(***************************************************************************)
\* index.js 315-340 / 513-538: /stream.m3u8 and /playlist check the body and
\* rewrite it; a body that is not HLS is logged and the callback returns
PlaylistFetched(r, b) ==
  /\ UNCHANGED otherThanServer
  /\ alive /\ pc[r] = "fetching" /\ kind[r] \in {"stream", "playlist"}
  /\ cbs' = [cbs EXCEPT ![r] = @ + 1]
  /\ body' = [body EXCEPT ![r] = b]
  /\ IF hls_detected(b)
       THEN /\ respond(r)
            /\ UNCHANGED logs
       ELSE /\ logs' = [logs EXCEPT ![r] = @ \cup {"not a valid hls stream"}]
            /\ pc' = [pc EXCEPT ![r] = "finished"]
            /\ UNCHANGED resp
  /\ UNCHANGED <<alive, kind, keyParam, stage, tries, timer, calls, attempts, prevKeys,
                 keyFetches, keyAttempts, pred, media>>

\* index.js 667-696: /ts has its segment; without a key, or with inline key
\* material, it answers at once; with a key URL it calls getKey, which answers
\* from prevKeys or starts a requestRetry for the key
SegmentFetched(r) ==
  /\ UNCHANGED otherThanServer
  /\ alive /\ pc[r] = "fetching" /\ kind[r] = "ts" /\ stage[r] = "main"
  /\ cbs' = [cbs EXCEPT ![r] = @ + 1]
  /\ IF keyParam[r] \in KeyURLs /\ ~keyCached(keyParam[r])
       THEN /\ prevKeys' = reserveKey(keyParam[r])
            /\ requestRetry(r, "key")
            /\ keyFetches' = [keyFetches EXCEPT ![r] = @ + 1]
            /\ keyAttempts' = [keyAttempts EXCEPT ![r] = @ + 1]
            /\ UNCHANGED resp
       ELSE /\ respond(r)
            /\ UNCHANGED <<stage, tries, calls, attempts, prevKeys, keyFetches, keyAttempts>>
  /\ UNCHANGED <<alive, kind, keyParam, timer, logs, body, pred, media>>

\* index.js 256-260 and 684-694: the key arrives, is stored and the decrypted
\* segment is sent
KeyFetched(r) ==
  /\ UNCHANGED otherThanServer
  /\ alive /\ pc[r] = "fetching" /\ kind[r] = "ts" /\ stage[r] = "key"
  /\ cbs' = [cbs EXCEPT ![r] = @ + 1]
  /\ prevKeys' = storeKey(keyParam[r])
  /\ respond(r)
  /\ UNCHANGED <<alive, kind, keyParam, stage, tries, timer, calls, attempts, logs,
                 body, keyFetches, keyAttempts, pred, media>>

\* index.js 672-693: createDecipheriv, dc.update or dc.final throws (a key or
\* iv of the wrong length, a segment that is no whole number of blocks, bad
\* padding) inside the callback, which has no try/catch and no res.error on
\* this path: the response is never answered. The exception leaves the
\* callback of request; it ends the process as an uncaught exception, or it
\* is lost when the caller of the callback swallows it
DecryptFails(r, exits) ==
  /\ UNCHANGED otherThanServer
  /\ alive /\ pc[r] = "fetching" /\ kind[r] = "ts" /\ keyParam[r] # "none"
  /\ \/ stage[r] = "key"
     \/ stage[r] = "main" /\ keyParam[r] = "inline"
     \/ stage[r] = "main" /\ keyParam[r] \in KeyURLs /\ keyCached(keyParam[r])
  /\ cbs' = [cbs EXCEPT ![r] = @ + 1]
  /\ prevKeys' = (IF stage[r] = "key" THEN storeKey(keyParam[r]) ELSE prevKeys)
  /\ pc' = [pc EXCEPT ![r] = "threw"]
  /\ alive' = ~exits
  /\ UNCHANGED <<kind, keyParam, stage, tries, timer, calls, attempts, resp, logs, body,
                 keyFetches, keyAttempts, pred, media>>

(***************************************************************************)
(* A failed upstream request: request calls back with the error (index.js  *)
(* 288-292) and its promise rejects into streamVideo's catch (part_001     *)
(* 449-454), both long before the 1000 ms timer of the retry.              *)
(***************************************************************************)
StreamVideoFails(r) ==
  /\ UNCHANGED otherThanServer
  /\ alive /\ pc[r] = "fetching"
  /\ LET t == tries[r]
         o == requestRetryOnError(t)
     IN /\ tries' = [tries EXCEPT ![r] = o.tries]
        /\ logs' = [logs EXCEPT ![r] = @ \cup retryLog(t) \cup {"stream video failed"}]
        /\ IF o.retry
             THEN /\ pc' = [pc EXCEPT ![r] = "waiting"]
                  /\ timer' = [timer EXCEPT ![r] = o.delay]
                  /\ UNCHANGED <<cbs, resp>>
             ELSE \* cb(err): every caller answers with res.error(err)
                  /\ pc' = [pc EXCEPT ![r] = "finished"]
                  /\ cbs' = [cbs EXCEPT ![r] = @ + 1]
                  /\ resp' = [resp EXCEPT ![r] = "error"]
                  /\ UNCHANGED timer
        /\ alive' = ~streamVideoExits(t)
  /\ UNCHANGED <<kind, keyParam, stage, calls, attempts, body, prevKeys, keyFetches,
                 keyAttempts, pred, media>>

\* index.js 286-290: the timer fires and action() calls streamVideo again
RetryTimer(r) ==
  /\ UNCHANGED otherThanServer
  /\ alive /\ pc[r] = "waiting"
  /\ pc' = [pc EXCEPT ![r] = "fetching"]
  /\ timer' = [timer EXCEPT ![r] = 0]
  /\ attempts' = [attempts EXCEPT ![r] = @ + 1]
  /\ keyAttempts' = [keyAttempts EXCEPT ![r] = IF stage[r] = "key" THEN @ + 1 ELSE @]
  /\ UNCHANGED <<alive, kind, keyParam, stage, tries, calls, cbs, resp, logs, body,
                 prevKeys, keyFetches, pred, media>>

ServerNext ==
  \/ \E r \in Reqs, k \in {"stream", "playlist", "ts"}, kp \in KeyParams : Request(r, k, kp)
  \/ \E r \in Reqs : RequestGame(r)
  \/ \E r \in Reqs, hasUrl \in BOOLEAN : HttpGetResolves(r, hasUrl)
  \/ \E r \in Reqs : HttpGetFails(r)
  \/ StreamURLExpires
  \/ \E r \in Reqs, b \in Bodies : PlaylistFetched(r, b)
  \/ \E r \in Reqs : SegmentFetched(r)
  \/ \E r \in Reqs : KeyFetched(r)
  \/ \E r \in Reqs, exits \in BOOLEAN : DecryptFails(r, exits)
  \/ \E r \in Reqs : StreamVideoFails(r)
  \/ \E r \in Reqs : RetryTimer(r)


(***************************************************************************)
(* Claims about the server machine (specification Spec).                   *)
(***************************************************************************)
\* no step of the requestRetry call running for r is pending or can ever follow
CallOver(r) == kind[r] # "none" /\ (~alive \/ pc[r] \notin {"fetching", "waiting", "httpGet"})

\* C1: no failure inside the core terminates the server process: after any
\* sequence of client requests and upstream fetch failures the process is
\* still running, so a later request can still be served.
C1_ProcessKeepsRunning == alive

\* a /stream.m3u8 or /playlist request whose fetched body failed the HLS check
Rejected(r) == kind[r] \in {"stream", "playlist"} /\ body[r] # <<>> /\ ~hls_detected(body[r])

\* C2: when the fetched body is not an HLS playlist the rejection is logged,
\* no further upstream fetch is issued for the request, and once the handler
\* has finished the client has received an empty response.
C2_InvalidBodyAnsweredEmpty ==
  \A r \in Reqs :
    Rejected(r) =>
      /\ "not a valid hls stream" \in logs[r]
      /\ pc[r] \notin {"fetching", "waiting"}
      /\ (pc[r] = "finished" => resp[r] = "empty")

\* no fetch of another request than r has failed, so that only the attempts of
\* r's own requestRetry calls decide what happens to them
OnlyFailuresOf(r) ==
  \A q \in Reqs \ {r} : logs[q] \cap {"stream video failed", "http get failed"} = {}

\* C3: every requestRetry call makes at most 2 retries, each after the fixed
\* delay of 1 second, and whatever the successes and failures of its attempts,
\* once no further attempt can follow, the caller's callback has been invoked
\* exactly once for the call (and never more than once before that).
C3_RetryCallsBackExactlyOnce ==
  \A r \in Reqs :
    /\ attempts[r] <= calls[r] * (1 + RETRY_TRIES)
    /\ timer[r] \in {0, RETRY_DELAY_MS}
    /\ cbs[r] <= calls[r]
    /\ (OnlyFailuresOf(r) /\ "http get failed" \notin logs[r] /\ CallOver(r)
          => cbs[r] = calls[r])

\* a and b are /ts requests with the same key URL, b arrived after a was answered,
\* and both were answered with the segment
Consecutive(a, b) ==
  /\ a # b /\ kind[a] = "ts" /\ kind[b] = "ts"
  /\ keyParam[a] \in KeyURLs /\ keyParam[b] = keyParam[a]
  /\ a \in pred[b]
  /\ resp[a] = "body" /\ resp[b] = "body"

\* C7: two consecutive /ts requests carrying the same key URL cause exactly one
\* upstream fetch of that key (one requestRetry call of getKey): the second
\* request issues no key request at all, and when no other request used the key
\* URL the first one issued exactly one.
C7_KeyFetchedOnce ==
  \A a, b \in Reqs :
    Consecutive(a, b) =>
      /\ keyFetches[b] = 0 /\ keyAttempts[b] = 0
      /\ ((\A c \in Reqs \ {a, b} : keyParam[c] # keyParam[a]) =>
            keyFetches[a] + keyFetches[b] = 1)

\* two consecutive /ts requests with one key URL were both answered
C7_Witness == \E a, b \in Reqs : Consecutive(a, b) /\ keyFetches[a] = 1

(***************************************************************************)
(* Strings are sequences of characters, so that trimming, resolving,       *)
(* encoding and decoding are computed and not assumed.                     *)
(***************************************************************************)
QUERY_URL == <<"?", "u", "r", "l", "=">>
PLAYLIST_LINK == <<"p", "l", "a", "y", "l", "i", "s", "t", "?", "u", "r", "l", "=">>
TS_LINK == <<"t", "s", "?", "u", "r", "l", "=">>
VTT_LINK == <<"v", "t", "t", "?", "u", "r", "l", "=">>

RECURSIVE trimLeft(_)
trimLeft(s) == IF s # <<>> /\ Head(s) = " " THEN trimLeft(Tail(s)) ELSE s

RECURSIVE trimRight(_)
trimRight(s) ==
  IF s # <<>> /\ s[Len(s)] = " " THEN trimRight(SubSeq(s, 1, Len(s) - 1)) ELSE s

\* String.prototype.trim, as used on every URI line
trim(s) == trimRight(trimLeft(s))

\* s.startsWith(p) / s.indexOf(p) === 0
startsWith(s, p) == Len(s) >= Len(p) /\ SubSeq(s, 1, Len(p)) = p

\* the percent-escape encodeURIComponent gives a character outside A-Z a-z 0-9 - _ . ! ~ * ' ( )
escapeOf(c) ==
  CASE c = "/" -> <<"%", "2", "F">>
    [] c = ":" -> <<"%", "3", "A">>
    [] c = "&" -> <<"%", "2", "6">>
    [] c = "%" -> <<"%", "2", "5">>
    [] c = "?" -> <<"%", "3", "F">>
    [] c = "=" -> <<"%", "3", "D">>
    [] c = " " -> <<"%", "2", "0">>
    [] OTHER -> <<c>>

RECURSIVE encodeURIComponent(_)
encodeURIComponent(s) ==
  IF s = <<>> THEN <<>> ELSE escapeOf(Head(s)) \o encodeURIComponent(Tail(s))

\* the character a percent-escape stands for
unescapeOf(h) ==
  CASE h = <<"2", "F">> -> "/"
    [] h = <<"3", "A">> -> ":"
    [] h = <<"2", "6">> -> "&"
    [] h = <<"2", "5">> -> "%"
    [] h = <<"3", "F">> -> "?"
    [] h = <<"3", "D">> -> "="
    [] h = <<"2", "0">> -> " "
    [] OTHER -> "URIError"

RECURSIVE decodeURIComponent(_)
decodeURIComponent(s) ==
  IF s = <<>> THEN <<>>
  ELSE IF Head(s) = "%"
    THEN IF Len(s) >= 3
           THEN <<unescapeOf(SubSeq(s, 2, 3))>> \o decodeURIComponent(SubSeq(s, 4, Len(s)))
           ELSE <<"URIError">>
    ELSE <<Head(s)>> \o decodeURIComponent(Tail(s))

RECURSIVE indexOfChar(_, _, _)
\* the first position >= i of character c in s, 0 when there is none
indexOfChar(s, c, i) ==
  IF i > Len(s) THEN 0 ELSE IF s[i] = c THEN i ELSE indexOfChar(s, c, i + 1)

RECURSIVE lastIndexOfChar(_, _, _)
\* the last position <= i of character c in s, 0 when there is none
lastIndexOfChar(s, c, i) ==
  IF i < 1 THEN 0 ELSE IF s[i] = c THEN i ELSE lastIndexOfChar(s, c, i - 1)

\* the scheme and host of an absolute URL: everything before the third slash
originOf(base) ==
  LET a == indexOfChar(base, "/", 1)
      b == indexOfChar(base, "/", a + 1)
      c == indexOfChar(base, "/", b + 1)
  IN IF c = 0 THEN base ELSE SubSeq(base, 1, c - 1)

\* url.resolve(base, rel) of node: an absolute rel stands, a rooted rel replaces
\* the path, any other rel replaces the last path segment, an empty rel is base
urlResolve(base, rel) ==
  IF rel = <<>> THEN base
  ELSE IF startsWith(rel, <<"h", ":">>) THEN rel
  ELSE IF Head(rel) = "/" THEN originOf(base) \o rel
  ELSE SubSeq(base, 1, lastIndexOfChar(base, "/", Len(base))) \o rel

\* the value of the url parameter of a proxy link, as the query parser of the
\* server cuts it: from behind '?url=' to the next '&'
urlParam(link) ==
  LET q == indexOfChar(link, "?", 1)
      from == q + 5
      amp == indexOfChar(link, "&", from)
  IN IF q = 0 \/ ~startsWith(SubSeq(link, q, Len(link)), QUERY_URL) THEN <<>>
     ELSE SubSeq(link, from, IF amp = 0 THEN Len(link) ELSE amp - 1)

(***************************************************************************)
(* index.js 302-474: getMasterPlaylist, the rewrite of a master playlist.  *)
(* A line is a record: k is the tag the code tells it by, res and rate the *)
(* RESOLUTION height and FRAME-RATE of a variant, text its URI.            *)
(***************************************************************************)
L(k, res, rate, text) == [k |-> k, res |-> res, rate |-> rate, text |-> text]

\* index.js 31: VALID_RESOLUTIONS
ADAPTIVE == <<"a", "d", "a", "p", "t", "i", "v", "e">>
VALID_RESOLUTIONS == {ADAPTIVE, <<"7", "2", "0", "p", "6", "0">>, <<"5", "4", "0", "p">>, <<"3", "6", "0", "p">>, <<"2", "1", "6", "p">>}
OFF == <<"o", "f", "f">>
ON == <<"o", "n">>

STREAM_URL == <<"h", ":", "/", "/", "o", "/", "d", "/", "m">>

\* index.js 362-368: the frame rate and the height the variant lines are
\* searched for: '59.94' when the resolution ends in '60', else '29.97'
frame_rate(resolution) ==
  IF resolution # ADAPTIVE /\ SubSeq(resolution, 5, Len(resolution)) = <<"6", "0">>
    THEN "59.94" ELSE "29.97"

resolutionHeight(resolution) ==
  IF resolution # ADAPTIVE THEN SubSeq(resolution, 1, 3) ELSE resolution

\* index.js 408: line.indexOf(resolution+',FRAME-RATE='+frame_rate) > 0
trackMatches(ln, resolution) ==
  ln.res = resolutionHeight(resolution) /\ ln.rate = frame_rate(resolution)

\* index.js 308-314: '&referer=' + encodeURIComponent(options.referer)
referer_parameter(o) ==
  IF o.referer # <<>> THEN <<"&", "r", "e", "f", "e", "r", "e", "r", "=">> \o encodeURIComponent(o.referer) ELSE <<>>

\* index.js 355-358
content_protect(o) ==
  IF o.content_protect # <<>> THEN <<"&", "c", "o", "n", "t", "e", "n", "t", "_", "p", "r", "o", "t", "e", "c", "t", "=">> \o o.content_protect ELSE <<>>

\* index.js 351-353: an inning number without a half means the top of the inning
masterInningHalf(o) ==
  IF o.inning_number # <<>> /\ o.inning_half = <<>> THEN <<"t", "o", "p">> ELSE o.inning_half

\* index.js 429-435 and 448-454: the options carried on to /playlist
forwardedParams(o) ==
  (IF masterInningHalf(o) # <<>> THEN <<"&", "i", "n", "n", "i", "n", "g", "_", "h", "a", "l", "f", "=">> \o masterInningHalf(o) ELSE <<>>)
  \o (IF o.inning_number # <<>> THEN <<"&", "i", "n", "n", "i", "n", "g", "_", "n", "u", "m", "b", "e", "r", "=">> \o o.inning_number ELSE <<>>)
  \o (IF o.skip # OFF THEN <<"&", "s", "k", "i", "p", "=">> \o o.skip ELSE <<>>)
  \o (IF o.pad # OFF THEN <<"&", "p", "a", "d", "=">> \o o.pad ELSE <<>>)
  \o (IF o.gamePk # <<>> THEN <<"&", "g", "a", "m", "e", "P", "k", "=">> \o o.gamePk ELSE <<>>)
  \o (IF o.force_vod # OFF THEN <<"&", "f", "o", "r", "c", "e", "_", "v", "o", "d", "=", "o", "n">> ELSE <<>>)
  \o content_protect(o) \o referer_parameter(o)

\* a link built from the URI as written, not resolved against the stream URL
playlistLinkUnresolved(text, o) ==
  PLAYLIST_LINK \o encodeURIComponent(trim(text)) \o forwardedParams(o)

\* index.js 447-455: the proxy link of a variant URI
playlistLink(text, o) ==
  PLAYLIST_LINK \o encodeURIComponent(urlResolve(STREAM_URL, trim(text))) \o forwardedParams(o)

\* index.js 387: the proxy link of a segment found in a body fetched as a master
masterSegmentLink(text, o) ==
  TS_LINK \o encodeURIComponent(urlResolve(STREAM_URL, trim(text)))
  \o content_protect(o) \o referer_parameter(o)

\* index.js 361, 370-371: the variables the map callback closes over
masterStart == [segment_playlist |-> FALSE, segment_found |-> FALSE,
                video_track_matched |-> FALSE]

\* index.js 374-457: the map callback on one line; out is <<>> for a line the
\* callback returns nothing for (the filter drops it)
masterLine(st, ln, o) ==
  IF ln.k = "EXTINF"
    THEN [st |-> [st EXCEPT !.segment_playlist = TRUE, !.segment_found = TRUE], out |-> <<ln>>]
  ELSE IF st.segment_found
    THEN [st |-> [st EXCEPT !.segment_found = FALSE],
          out |-> <<L("URI", <<>>, "", masterSegmentLink(ln.text, o))>>]
  ELSE IF ln.k = "I-FRAME"
    THEN [st |-> st, out |-> <<>>]
  ELSE IF ln.k = "STREAM-INF"
    THEN IF o.resolution = ADAPTIVE
           THEN [st |-> st, out |-> <<ln>>]
         ELSE IF trackMatches(ln, o.resolution)
           THEN [st |-> [st EXCEPT !.video_track_matched = TRUE], out |-> <<ln>>]
         ELSE [st |-> st, out |-> <<>>]
  ELSE IF ln.k = "SESSION-KEY"
    THEN [st |-> st, out |-> <<>>]
  ELSE IF ln.k = "SUBTITLES"
    THEN [st |-> st, out |-> <<L("SUBTITLES", <<>>, "", playlistLink(ln.text, o))>>]
  ELSE IF ln.k \in {"TAG", "EXTM3U", "KEY"}
    THEN [st |-> st, out |-> <<ln>>]
  ELSE IF o.resolution = ADAPTIVE \/ st.video_track_matched
    THEN [st |-> [st EXCEPT !.video_track_matched = FALSE],
          out |-> <<L("URI", <<>>, "", playlistLink(ln.text, o))>>]
  ELSE [st |-> st, out |-> <<>>]

RECURSIVE masterMap(_, _, _, _)
masterMap(lines, i, st, o) ==
  IF i > Len(lines) THEN <<>>
  ELSE LET r == masterLine(st, lines[i], o)
       IN r.out \o masterMap(lines, i + 1, r.st, o)

\* body.map(...).filter(...) of getMasterPlaylist
rewriteMaster(lines, o) == masterMap(lines, 1, masterStart, o)

(***************************************************************************)
(* The master playlists and options the rewrite is run on.                 *)
(***************************************************************************)
NoText == <<>>
EXTM3U == L("EXTM3U", NoText, "", NoText)

\* the lines a fetched body is made of behind its first line
MasterLineSet ==
  { L("STREAM-INF", <<"7", "2", "0">>, "59.94", <<"1">>),
    L("STREAM-INF", <<"5", "4", "0">>, "29.97", <<"2">>),
    L("STREAM-INF", <<"5", "4", "0">>, "29.97", <<"3">>),
    L("I-FRAME", <<"5", "4", "0">>, "29.97", NoText),
    L("SESSION-KEY", NoText, "", NoText),
    L("SUBTITLES", NoText, "", <<"s">>),
    L("TAG", NoText, "", NoText),
    L("KEY", NoText, "", <<"k">>),
    L("EXTINF", NoText, "", NoText),
    L("URI", NoText, "", <<"a">>),
    L("URI", NoText, "", <<"/", "b", "&", "c", " ">>),
    L("BLANK", NoText, "", NoText) }

MasterBodies ==
  UNION { {<<EXTM3U>> \o b : b \in [1..n -> MasterLineSet]} : n \in 0..MaxMasterLines }

\* index.js 169-192: the options of a stream request, here with their defaults
DefaultOptions ==
  [resolution |-> ADAPTIVE, inning_half |-> <<>>, inning_number |-> <<>>, skip |-> OFF,
   pad |-> OFF, gamePk |-> <<>>, force_vod |-> OFF, referer |-> <<>>,
   content_protect |-> <<>>]

MasterOptionSet ==
  { DefaultOptions,
    [DefaultOptions EXCEPT !.resolution = <<"7", "2", "0", "p", "6", "0">>],
    [DefaultOptions EXCEPT !.resolution = <<"5", "4", "0", "p">>],
    [DefaultOptions EXCEPT !.inning_number = <<"3">>, !.skip = <<"b", "r", "e", "a", "k", "s">>, !.gamePk = <<"7">>,
                           !.force_vod = ON, !.referer = <<"h", ":", "/", "/", "r", "/">>] }

\* the first lines of a body as the HLS check reads them
firstLines(lines) ==
  [i \in 1..Len(lines) |->
     IF lines[i].k = "EXTM3U" THEN "#EXTM3U" ELSE IF lines[i].k = "BLANK" THEN "" ELSE "other"]

MasterIdle == mLines = <<>> /\ mOptions = DefaultOptions /\ mOut = <<>> /\ mDone = FALSE

\* a master playlist has been fetched for a stream request with some options
MasterInit ==
  /\ mLines \in MasterBodies
  /\ mOptions \in MasterOptionSet
  /\ mOut = <<>>
  /\ mDone = FALSE

\* index.js 315-464: the callback of getMasterPlaylist on the fetched body
RewriteMaster ==
  /\ ~mDone
  /\ hls_detected(firstLines(mLines))
  /\ mOut' = rewriteMaster(mLines, mOptions)
  /\ mDone' = TRUE
  /\ UNCHANGED <<mLines, mOptions>>
  /\ UNCHANGED otherThanMaster

(***************************************************************************)
(* index.js 477-645: the /playlist handler, the rewrite of a media         *)
(* playlist. A line is a record: k is the tag the code tells it by, dur    *)
(* the duration of an #EXTINF line, text the URI of a URI line or of a key *)
(* tag, iv the IV attribute of a key tag (<<>> when it has none).          *)
(***************************************************************************)
M(k, dur, text, iv) == [k |-> k, dur |-> dur, text |-> text, iv |-> iv]

\* index.js 43
SECONDS_PER_SEGMENT == 4

UNDEFINED == <<"u", "n", "d", "e", "f", "i", "n", "e", "d">>

\* index.js 502-505: the proxy route of the segments, vtt for a subtitle playlist
WEBVTT_SUFFIX == <<"_", "w", "e", "b", "V", "T", "T", ".", "m", "3", "u", "8">>
endsWith(s, p) == Len(s) >= Len(p) /\ SubSeq(s, Len(s) - Len(p) + 1, Len(s)) = p
extension(u) == IF endsWith(u, WEBVTT_SUFFIX) THEN <<"v", "t", "t">> ELSE <<"t", "s">>

\* index.js 597-599: the key URI, resolved against the playlist URL unless it
\* starts with 'http', and the IV without its '0x'
keyOf(ln, u) == IF startsWith(ln.text, <<"h", ":">>) THEN ln.text ELSE urlResolve(u, ln.text)
lowerOf(c) ==
  CASE c = "A" -> "a" [] c = "B" -> "b" [] c = "C" -> "c"
    [] c = "D" -> "d" [] c = "E" -> "e" [] c = "F" -> "f" [] OTHER -> c
toLowerCase(s) == [i \in 1..Len(s) |-> lowerOf(s[i])]
ivOf(ln, iv) == IF ln.iv # <<>> THEN toLowerCase(SubSeq(ln.iv, 3, Len(ln.iv))) ELSE iv

\* a link that carries the segment URL as it is in the playlist
segmentLinkRaw(text, st, o) ==
  extension(o.u) \o QUERY_URL \o urlResolve(o.u, trim(text))
  \o content_protect(o) \o referer_parameter(o)

\* index.js 606-607: the proxy link of a segment
segmentLink(text, st, o) ==
  IF st.key # <<>>
    THEN extension(o.u) \o QUERY_URL \o encodeURIComponent(urlResolve(o.u, trim(text)))
         \o <<"&", "k", "e", "y", "=">> \o encodeURIComponent(st.key) \o <<"&", "i", "v", "=">> \o encodeURIComponent(st.iv)
         \o content_protect(o) \o referer_parameter(o)
    ELSE extension(o.u) \o QUERY_URL \o encodeURIComponent(urlResolve(o.u, trim(text)))
         \o content_protect(o) \o referer_parameter(o)

\* the variables with a discontinuity flag that starts set
mediaStartFlagSet == [key |-> <<>>, iv |-> UNDEFINED, skip_marker_index |-> 1, time_counter |-> 0,
                      skip_next |-> FALSE, discontinuity |-> TRUE]

\* index.js 540-546: the variables the map callback closes over; key and iv
\* are undefined (here <<>> and 'undefined', as the link would print it)
mediaStart == [key |-> <<>>, iv |-> UNDEFINED, skip_marker_index |-> 1, time_counter |-> 0,
               skip_next |-> FALSE, discontinuity |-> FALSE]

RECURSIVE advanceMarker(_, _, _)
\* index.js 575-577: while (markers[i] && markers[i].break_end < time_counter) i++
advanceMarker(markers, i, t) ==
  IF i <= Len(markers) /\ markers[i].break_end < t THEN advanceMarker(markers, i + 1, t) ELSE i

\* index.js 578: the segment ending at t falls into the interval the index is at
inBreak(markers, i, t) ==
  i <= Len(markers) /\ t >= markers[i].break_start /\ t < markers[i].break_end

\* index.js 594-607: the part of the map callback behind the skip block
mediaKeep(st, ln, o) ==
  IF ln.k = "KEY"
    THEN [st |-> [st EXCEPT !.key = keyOf(ln, o.u), !.iv = ivOf(ln, st.iv)], out |-> <<>>]
  ELSE IF ln.k # "URI"
    THEN [st |-> st, out |-> <<ln>>]
  ELSE [st |-> st, out |-> <<M("URI", 0, segmentLink(ln.text, st, o), <<>>)>>]

\* index.js 561-608: the map callback on one line; out is <<>> for a line the
\* callback returns null for (the filter drops it)
mediaLine(st, ln, o) ==
  IF ln.k = "BLANK" THEN [st |-> st, out |-> <<>>]
  ELSE IF st.skip_marker_index <= Len(o.skip_markers)
    THEN IF st.skip_next
           THEN [st |-> [st EXCEPT !.skip_next = FALSE], out |-> <<>>]
         ELSE IF ln.k = "EXTINF"
           THEN LET t == st.time_counter + ln.dur
                    i == advanceMarker(o.skip_markers, st.skip_marker_index, t)
                    s1 == [st EXCEPT !.time_counter = t, !.skip_marker_index = i]
                IN IF inBreak(o.skip_markers, i, t)
                     THEN IF st.discontinuity
                            THEN [st |-> [s1 EXCEPT !.skip_next = TRUE], out |-> <<>>]
                            ELSE [st |-> [s1 EXCEPT !.skip_next = TRUE, !.discontinuity = TRUE],
                                  out |-> <<M("DISCONTINUITY", 0, <<>>, <<>>)>>]
                     ELSE mediaKeep([s1 EXCEPT !.discontinuity = FALSE], ln, o)
         ELSE mediaKeep(st, ln, o)
  ELSE mediaKeep(st, ln, o)

RECURSIVE mediaMap(_, _, _, _)
mediaMap(lines, i, st, o) ==
  IF i > Len(lines) THEN <<>>
  ELSE LET r == mediaLine(st, lines[i], o)
       IN r.out \o mediaMap(lines, i + 1, r.st, o)

\* index.js 620: line.startsWith('#EXTINF:' + SECONDS_PER_SEGMENT), on a
\* duration written in whole seconds: 4, and any number whose digits begin with 4
isNominalInf(ln) ==
  ln.k = "EXTINF" /\ (ln.dur = SECONDS_PER_SEGMENT \/ ln.dur \in 40..49)

RECURSIVE lastNominal(_, _)
\* index.js 619-622: the backward search; 0 when it runs off the array, where
\* body_array[-1].startsWith throws
lastNominal(lines, i) ==
  IF i < 1 THEN 0 ELSE IF isNominalInf(lines[i]) THEN i ELSE lastNominal(lines, i - 1)

DIGITS == <<"0", "1", "2", "3", "4", "5", "6", "7", "8", "9">>
isDigit(c) == \E d \in 1..10 : DIGITS[d] = c
digitOf(c) == (CHOOSE d \in 1..10 : DIGITS[d] = c) - 1

RECURSIVE numberOf(_)
numberOf(s) == IF s = <<>> THEN 0 ELSE 10 * numberOf(SubSeq(s, 1, Len(s) - 1)) + digitOf(s[Len(s)])

\* index.js 627: i < pad, on the pad parameter as the query holds it: the number
\* a string of digits stands for; any other string is not a number, and i < pad
\* fails at once, as it does for 0
toNumber(s) == IF s # <<>> /\ (\A i \in 1..Len(s) : isDigit(s[i])) THEN numberOf(s) ELSE 0

RECURSIVE numberToString(_)
\* index.js 432 and 451: '&pad=' + pad, the digits of a number
numberToString(n) ==
  IF n < 10 THEN <<DIGITS[n + 1]>> ELSE numberToString(n \div 10) \o <<DIGITS[(n % 10) + 1]>>

\* index.js 188-192: the pad option of a stream request: 'off', or for any other
\* value Math.floor(Math.random() * (7200 / 4)) + (3600 / 4), where r is the
\* value of Math.floor(Math.random() * 1800), from 0 to 1799
streamPad(queryPad, r) ==
  IF queryPad = OFF THEN OFF
  ELSE numberToString(r + (3600 \div SECONDS_PER_SEGMENT))

\* index.js 627-629: body += pad_lines, n times
repeatLines(triple, n) ==
  [i \in 1..(n * Len(triple)) |-> triple[((i - 1) % Len(triple)) + 1]]

ENDLIST == M("ENDLIST", 0, <<>>, <<>>)

\* index.js 614-632: the padding of an archive playlist; the result is the
\* body, or threw when the search ran off the array
padBody(lines, o) ==
  IF o.pad = OFF \/ lines = <<>> \/ lines[Len(lines)] # ENDLIST
    THEN [body |-> lines, threw |-> FALSE]
  ELSE LET i == lastNominal(lines, Len(lines) - 1)
       IN IF i = 0 THEN [body |-> lines, threw |-> TRUE]
          ELSE [body |-> lines
                         \o repeatLines(<<M("DISCONTINUITY", 0, <<>>, <<>>), lines[i],
                                          lines[i + 1]>>, toNumber(o.pad))
                         \o <<ENDLIST>>,
                threw |-> FALSE]

\* a rewrite that never closes the playlist
forceVodIgnored(lines, o) == lines

\* index.js 633: if ( force_vod != 'off' ) body += '#EXT-X-ENDLIST'
forceVod(lines, o) == IF o.force_vod # OFF THEN lines \o <<ENDLIST>> ELSE lines

\* index.js 560-635: the whole rewrite of a fetched media playlist
rewriteMedia(lines, o) ==
  LET padded == padBody(mediaMap(lines, 1, mediaStart, o), o)
  IN [body |-> forceVod(padded.body, o), threw |-> padded.threw]

(***************************************************************************)
(* The media playlists and the requests the rewrite is run on.             *)
(***************************************************************************)
MaxMediaLines == 4

PLAYLIST_URL == STREAM_URL
SUBTITLE_URL == <<"h", ":", "/", "/", "o", "/", "d", "/", "s", "_", "w", "e", "b", "V", "T", "T", ".", "m", "3", "u", "8">>

MediaLineSet ==
  { M("EXTINF", SECONDS_PER_SEGMENT, <<>>, <<>>),
    M("TAG", 0, <<>>, <<>>),
    M("KEY", 0, <<"k">>, <<"0", "x", "A", "B">>),
    M("URI", 0, <<"a">>, <<>>),
    M("URI", 0, <<"/", "b", "&", "c", " ">>, <<>>),
    M("URI", 0, <<"h", ":", "/", "/", "x", "/", "s", "%">>, <<>>),
    M("BLANK", 0, <<>>, <<>>),
    ENDLIST }

MediaBodies ==
  UNION { {<<M("EXTM3U", 0, <<>>, <<>>)>> \o b : b \in [1..n -> MediaLineSet]} : n \in 0..MaxMediaLines }

\* index.js 484-500: the playlist URL and the options of a /playlist request,
\* here with their defaults; pad is 'off' or the pad parameter of the link,
\* skip_markers the list cached for the game, <<>> when none is used
DefaultMediaOptions ==
  [u |-> PLAYLIST_URL, force_vod |-> OFF, pad |-> OFF, skip_markers |-> <<>>,
   referer |-> <<>>, content_protect |-> <<>>]

MediaOptionSet ==
  { DefaultMediaOptions,
    [DefaultMediaOptions EXCEPT !.u = SUBTITLE_URL, !.referer = <<"h", ":", "/", "/", "r", "/">>, !.content_protect = <<"p">>],
    [DefaultMediaOptions EXCEPT !.force_vod = ON] }

MediaIdle ==
  /\ meLines = <<>> /\ meOptions = DefaultMediaOptions /\ meOut = <<>>
  /\ meThrew = FALSE /\ meDone = FALSE

\* a media playlist has been fetched for a /playlist request with some options
MediaInit ==
  /\ meLines \in MediaBodies
  /\ meOptions \in MediaOptionSet
  /\ meOut = <<>>
  /\ meThrew = FALSE
  /\ meDone = FALSE

\* index.js 513-636: the callback of /playlist on the fetched body
RewriteMedia ==
  /\ ~meDone
  /\ hls_detected(firstLines(meLines))
  /\ LET r == rewriteMedia(meLines, meOptions)
     IN /\ meOut' = (IF r.threw THEN <<>> ELSE r.body)
        /\ meThrew' = r.threw
  /\ meDone' = TRUE
  /\ UNCHANGED <<meLines, meOptions>>
  /\ UNCHANGED otherThanMedia

(***************************************************************************)
(* The archive playlists and the pad requests the /playlist rewrite is run *)
(* on: the pad parameter of a link made for a stream request with pad, at  *)
(* both ends of its range, and 'on' as a client may send it itself.        *)
(***************************************************************************)
MaxPadLines == 4

PadLineSet ==
  { M("EXTINF", SECONDS_PER_SEGMENT, <<>>, <<>>),
    M("EXTINF", 6, <<>>, <<>>),
    M("URI", 0, <<"a">>, <<>>),
    M("URI", 0, <<"/", "b", "&", "c", " ">>, <<>>),
    ENDLIST }

PadBodies ==
  UNION { {<<M("EXTM3U", 0, <<>>, <<>>)>> \o b : b \in [1..n -> PadLineSet]} : n \in 0..MaxPadLines }

\* the values of Math.floor(Math.random() * 1800) the pad is drawn with
RandomDraws == {0, 1799}

PadOptionSet ==
  { [DefaultMediaOptions EXCEPT !.pad = streamPad(ON, r)] : r \in RandomDraws }
  \cup { [DefaultMediaOptions EXCEPT !.pad = ON],
         [DefaultMediaOptions EXCEPT !.pad = streamPad(ON, 0), !.force_vod = ON] }

\* an archive playlist has been fetched for a /playlist request with pad
PadInit ==
  /\ meLines \in PadBodies
  /\ meOptions \in PadOptionSet
  /\ meOut = <<>>
  /\ meThrew = FALSE
  /\ meDone = FALSE

(***************************************************************************)
(* Media playlists with several key tags, with and without an IV.          *)
(***************************************************************************)
MaxKeyLines == 4

KeyLineSet ==
  { M("URI", 0, <<"a">>, <<>>),
    M("KEY", 0, <<"k">>, <<"0", "x", "A", "B">>),
    M("KEY", 0, <<"q">>, <<>>),
    M("TAG", 0, <<>>, <<>>) }

KeyBodies ==
  UNION { {<<M("EXTM3U", 0, <<>>, <<>>)>> \o b : b \in [1..n -> KeyLineSet]} : n \in 0..MaxKeyLines }

\* an encrypted media playlist has been fetched for a /playlist request
KeyInit ==
  /\ meLines \in KeyBodies
  /\ meOptions \in {DefaultMediaOptions, [DefaultMediaOptions EXCEPT !.content_protect = <<"p">>]}
  /\ meOut = <<>>
  /\ meThrew = FALSE
  /\ meDone = FALSE

(***************************************************************************)
(* part_001 1140-1268: getSkipMarkers. Times are whole seconds after the   *)
(* broadcast start; a time that is not a number (the end of an event       *)
(* without endTime) is the record NaN, and every comparison with it fails. *)
(***************************************************************************)
MaxEvents == 3

\* part_001 72-74
EVENT_START_PADDING == 4
EVENT_END_PADDING == 17
MINIMUM_BREAK_DURATION == 10
\* part_001 1250
OVERTURNED_PADDING == 40

Num(v) == [nan |-> FALSE, v |-> v]
NaN == [nan |-> TRUE, v |-> 0]
plus(a, n) == IF a.nan THEN NaN ELSE Num(a.v + n)
minus(a, b) == IF a.nan \/ b.nan THEN NaN ELSE Num(a.v - b.v)
atLeast(a, n) == ~a.nan /\ a.v >= n

\* an event of a play: cat is "break" when details.event is one of BREAK_TYPES,
\* "action" when it holds one of ACTION_TYPES, "pitch" otherwise
Event(cat, startTime, endTime, actionPlayId) ==
  [cat |-> cat, startTime |-> startTime, endTime |-> endTime, actionPlayId |-> actionPlayId]

NoEvent == Event("none", NaN, NaN, FALSE)

\* what the loop reads of playEvents[j-1]: its times
timesOf(e) == [startTime |-> e.startTime, endTime |-> e.endTime]

\* part_001 1200: the play is past the start inning
pastStartInning(p) ==
  \/ p.inning > start_inning
  \/ (p.inning = start_inning /\ (p.half = start_inning_half \/ p.half = "bottom"))

\* part_001 1212-1228: the index of the event that bounds the break: "j",
\* "j-1", or "undefined" for an event that bounds none
action_index(e, last) ==
  IF skip_type <= 2 /\ ~e.endTime.nan THEN "j"
  ELSE IF skip_type = 3
    THEN IF ~last /\ e.cat # "action" THEN "undefined"
         ELSE IF e.actionPlayId THEN "j-1" ELSE "j"
  ELSE "undefined"

\* a filter that lets every break through, however short
longEnoughAlways(be) == TRUE

\* part_001 1237: the break is at least MINIMUM_BREAK_DURATION long
longEnough(be) == atLeast(minus(be, break_start), MINIMUM_BREAK_DURATION)

\* a test that forgets the inning of the last marker
addsMarkerAnyInning(be, p) == longEnough(be)

\* part_001 1237: the marker is added
addsMarker(be, p) ==
  /\ longEnough(be)
  /\ (skip_type # 1 \/ p.inning # previous_inning \/ p.half # previous_inning_half)

\* a break that starts where the action started
nextBreakStartAtStart(a, p) ==
  plus(a.startTime, skip_adjust)

\* a break that starts where the action ended, without the padding
nextBreakStartUnpadded(a, p) == plus(a.endTime, skip_adjust)

\* part_001 1247-1251: the next break starts where the action ended, padded
nextBreakStart(a, p) ==
  plus(a.endTime, EVENT_END_PADDING + skip_adjust + (IF p.overturned THEN OVERTURNED_PADDING ELSE 0))

(***************************************************************************)
(* The play-by-play data getSkipMarkers runs on: the events come in        *)
(* broadcast order (no event starts before the one in front of it, none    *)
(* ends before it starts), and the plays in the order of the innings.      *)
(***************************************************************************)
\* the inning of the last play of the data
FinalInnings == {1, 2}
SkipAdjusts == {-20, 0}
\* no start inning, the bottom of the first, and an inning behind the last one
StartFilters == { <<0, "top">>, <<1, "bottom">>, <<3, "top">> }
\* seconds between the starts of two events
Deltas == {0, 30}
\* the events a play is made of: category, has an endTime, seconds it lasts,
\* has an actionPlayId
EventKinds ==
  { [cat |-> "break", ended |-> TRUE, lasts |-> 0, actionPlayId |-> FALSE],
    [cat |-> "pitch", ended |-> TRUE, lasts |-> 10, actionPlayId |-> FALSE],
    [cat |-> "pitch", ended |-> FALSE, lasts |-> 0, actionPlayId |-> FALSE],
    [cat |-> "action", ended |-> TRUE, lasts |-> 0, actionPlayId |-> FALSE],
    [cat |-> "action", ended |-> TRUE, lasts |-> 0, actionPlayId |-> TRUE] }

NoPlay == [inning |-> 0, half |-> "", overturned |-> FALSE]

\* nothing read yet
NothingSeen == [cat |-> "none", emitted |-> NoPlay, breakSince |-> FALSE, run |-> 0,
                acted |-> FALSE, linked |-> FALSE]

\* how a play follows the one before: in the same half inning, there with a
\* review that overturned the call, or in the next half inning
PlayKinds == {"same", "overturned", "next"}

\* the play behind play p
nextPlay(p, pk) ==
  IF p = NoPlay THEN [inning |-> 1, half |-> "top", overturned |-> pk = "overturned"]
  ELSE IF pk # "next" THEN [p EXCEPT !.overturned = (pk = "overturned")]
  ELSE IF p.half = "top" THEN [inning |-> p.inning, half |-> "bottom", overturned |-> FALSE]
  ELSE [inning |-> p.inning + 1, half |-> "top", overturned |-> FALSE]

loopVars == <<break_start, previous_inning, previous_inning_half, skip_markers>>
dataVars == <<skip_type, skip_adjust, start_inning, start_inning_half, final_inning>>

SkipIdle ==
  /\ skip_type = 0 /\ skip_adjust = 0 /\ start_inning = 0 /\ start_inning_half = "top"
  /\ final_inning = 1 /\ clock = 0 /\ play = NoPlay /\ evJ = 0 /\ playOpen = FALSE
  /\ prevEvent = timesOf(NoEvent) /\ break_start = Num(0) /\ previous_inning = 0
  /\ previous_inning_half = "" /\ skip_markers = <<>> /\ nEvents = 0 /\ skPc = "idle"
  /\ stored = <<>> /\ seen = NothingSeen

\* part_001 1140-1169: getSkipMarkers is called for a game whose broadcast
\* start is known; an empty start inning is 0, an empty half is 'top'
SkipInit ==
  /\ skip_type \in 0..3
  /\ skip_adjust \in SkipAdjusts
  /\ \E f \in StartFilters : start_inning = f[1] /\ start_inning_half = f[2]
  /\ final_inning \in FinalInnings
  /\ clock = 0 /\ play = NoPlay /\ evJ = 0 /\ playOpen = FALSE /\ prevEvent = timesOf(NoEvent)
  /\ break_start = Num(0) /\ previous_inning = 0 /\ previous_inning_half = ""
  /\ skip_markers = <<>> /\ nEvents = 0 /\ skPc = "loop" /\ stored = <<>>
  /\ seen = NothingSeen

\* part_001 1193-1195 and 1243-1245: the loops are left once the one marker
\* of the policy 'off' is found
foundInning == skip_type = 0 /\ Len(skip_markers) = 1

\* part_001 1178-1190: the first pass of the play loop, with a start inning
\* behind the last inning of the data, reads json_source, which is not defined
InvalidStartInning ==
  /\ UNCHANGED otherThanSkip
  /\ skPc = "loop" /\ nEvents = 0 /\ start_inning > final_inning
  /\ skPc' = "threw"
  /\ UNCHANGED <<dataVars, loopVars, clock, play, evJ, playOpen, prevEvent, nEvents, stored,
                 seen>>

\* part_001 1175-1256: the loops read the next event of the data: an event
\* of kind k, delta seconds behind the one before, the last of its play or
\* not; it opens a new play when the one before was the last of its play
ReadEvent(k, delta, last, pk) ==
  /\ UNCHANGED otherThanSkip
  /\ skPc = "loop" /\ nEvents < MaxEvents /\ ~foundInning
  /\ start_inning <= final_inning
  /\ playOpen => pk = "same"
  /\ LET p == IF playOpen THEN play ELSE nextPlay(play, pk)
         jj == IF playOpen THEN evJ ELSE 0
         e == Event(k.cat, Num(clock + delta),
                    IF k.ended THEN Num(clock + delta + k.lasts) ELSE NaN, k.actionPlayId)
         ai == action_index(e, last)
         a == IF ai = "j-1" THEN prevEvent ELSE timesOf(e)
         break_end == plus(a.startTime, EVENT_START_PADDING + skip_adjust)
     IN /\ p.inning <= final_inning
        /\ clock' = clock + delta /\ play' = p /\ evJ' = jj + 1 /\ playOpen' = ~last
        /\ prevEvent' = timesOf(e) /\ nEvents' = nEvents + 1
        /\ IF ~pastStartInning(p)
             THEN /\ UNCHANGED <<loopVars, skPc>>
                  /\ seen' = [seen EXCEPT !.cat = "before", !.linked = FALSE]
           ELSE IF e.cat = "break"
             THEN /\ seen' = [seen EXCEPT !.cat = "break", !.linked = FALSE, !.breakSince = TRUE,
                                          !.run = IF @ < 2 THEN @ + 1 ELSE @]
                  /\ break_start' = (IF skip_type = 1 /\ previous_inning > 0
                                       THEN plus(e.startTime, EVENT_END_PADDING + skip_adjust)
                                       ELSE break_start)
                  /\ previous_inning' = (IF skip_type = 1 /\ previous_inning > 0
                                           THEN 0 ELSE previous_inning)
                  /\ UNCHANGED <<previous_inning_half, skip_markers, skPc>>
           ELSE IF ai = "undefined"
             THEN /\ UNCHANGED <<loopVars, skPc>>
                  /\ seen' = [seen EXCEPT !.cat = e.cat, !.linked = e.actionPlayId]
           ELSE IF ai = "j-1" /\ jj = 0
             THEN /\ skPc' = "threw" /\ UNCHANGED loopVars
                  /\ seen' = [seen EXCEPT !.cat = e.cat, !.linked = e.actionPlayId, !.acted = TRUE]
           ELSE IF addsMarker(break_end, p)
             THEN /\ seen' = [cat |-> e.cat, emitted |-> [p EXCEPT !.overturned = FALSE],
                              breakSince |-> FALSE, run |-> 0, acted |-> TRUE,
                              linked |-> e.actionPlayId]
                  /\ skip_markers' = Append(skip_markers,
                                            [break_start |-> break_start.v, break_end |-> break_end.v])
                  /\ previous_inning' = p.inning
                  /\ previous_inning_half' = p.half
                  /\ break_start' = (IF skip_type = 0 THEN break_start ELSE nextBreakStart(a, p))
                  /\ UNCHANGED skPc
           ELSE /\ seen' = [seen EXCEPT !.cat = e.cat, !.linked = e.actionPlayId, !.run = 0,
                                        !.acted = TRUE]
                /\ break_start' = nextBreakStart(a, p)
                /\ UNCHANGED <<previous_inning, previous_inning_half, skip_markers, skPc>>
  /\ UNCHANGED <<dataVars, stored>>

\* part_001 1256-1264: the loops are over (the data has no play, its last
\* play is read, or the marker of the policy 'off' is found) and the list
\* goes into the temporary cache
StoreSkipMarkers ==
  /\ UNCHANGED otherThanSkip
  /\ skPc = "loop"
  /\ \/ nEvents = 0
     \/ (start_inning <= final_inning /\ ~playOpen /\ play.inning = final_inning)
     \/ foundInning
  /\ stored' = skip_markers
  /\ skPc' = "stored"
  /\ UNCHANGED <<dataVars, loopVars, clock, play, evJ, playOpen, prevEvent, nEvents, seen>>

SkipNext ==
  \/ InvalidStartInning
  \/ \E k \in EventKinds, delta \in Deltas, last \in BOOLEAN, pk \in PlayKinds :
       ReadEvent(k, delta, last, pk)
  \/ StoreSkipMarkers

(***************************************************************************)
(* part_001 685-769: getDayData and the expiry of its cache entry. Times   *)
(* are seconds on a clock that starts at 0, at noon of today.              *)
(***************************************************************************)
MaxGames == 2
MaxTicks == 3

\* part_001 719
DEFAULT_EXPIRY_HOURS == 1
\* part_001 729
LIVE_EXPIRY_MINUTES == 1
\* part_001 736
NEXT_GAME_LEAD_MINUTES == 15
\* part_001 746
TOMORROW_UTC_HOURS == 10

\* the seconds of a minute of Date.setMinutes
MINUTE == 60
HOUR == 60 * MINUTE
TODAY_MIDNIGHT == 0 - 12 * HOUR

At(t) == [forever |-> FALSE, t |-> t]
\* part_001 751: new Date(8640000000000000), the last date there is
Forever == [forever |-> TRUE, t |-> 0]
\* part_001 697: currentDate > new Date(dateCacheExpiry)
isPast(e, t) == ~e.forever /\ t > e.t

Game(state, suspended, tbd, gameDate) ==
  [abstractGameState |-> state, suspended |-> suspended, startTimeTBD |-> tbd,
   gameDate |-> gameDate]

\* part_001 727: the game is in progress: 'Live', and detailedState does not
\* start with 'Suspended'
inProgress(g) == g.abstractGameState = "Live" /\ ~g.suspended

RECURSIVE gamesLoop(_, _, _, _, _)
\* part_001 725-741: the loop over the games of today; threw when it reads
\* the status of games[-1]
gamesLoop(games, i, finals, cur, default) ==
  IF i > Len(games) THEN [threw |-> FALSE, expiry |-> default]
  ELSE IF inProgress(games[i])
    THEN [threw |-> FALSE, expiry |-> At(cur + LIVE_EXPIRY_MINUTES * MINUTE)]
  ELSE IF games[i].startTimeTBD /\ games[i].abstractGameState # "Final" /\ i = 1
    THEN [threw |-> TRUE, expiry |-> default]
  ELSE IF games[i].startTimeTBD /\ games[i].abstractGameState # "Final"
          /\ games[i - 1].abstractGameState = "Final"
    THEN [threw |-> FALSE, expiry |-> At(cur + LIVE_EXPIRY_MINUTES * MINUTE)]
  ELSE IF games[i].abstractGameState = "Final"
    THEN gamesLoop(games, i + 1, TRUE, cur, default)
  ELSE IF ~finals /\ ~games[i].startTimeTBD
    THEN [threw |-> FALSE, expiry |-> At(games[i].gameDate - NEXT_GAME_LEAD_MINUTES * MINUTE)]
  ELSE gamesLoop(games, i + 1, finals, cur, default)

\* part_001 717-752: the expiry of the entry of date d, fetched by a call
\* that started at cur and was answered at t
dayExpiry(d, games, cur, t) ==
  IF d = "today" THEN gamesLoop(games, 1, FALSE, cur, At(t + DEFAULT_EXPIRY_HOURS * HOUR))
  ELSE IF d = "future"
    THEN [threw |-> FALSE,
          expiry |-> At(TODAY_MIDNIGHT + 24 * HOUR + TOMORROW_UTC_HOURS * HOUR)]
  ELSE IF d = "past" THEN [threw |-> FALSE, expiry |-> Forever]
  ELSE [threw |-> FALSE, expiry |-> At(t + DEFAULT_EXPIRY_HOURS * HOUR)]

\* the games of a schedule: to start in 10 minutes, to start in 2 hours, with
\* no start time yet, in progress, suspended, over
GameSet ==
  { Game("Preview", FALSE, FALSE, 10 * MINUTE),
    Game("Preview", FALSE, FALSE, 2 * HOUR),
    Game("Preview", FALSE, TRUE, 0),
    Game("Live", FALSE, FALSE, 0),
    Game("Live", TRUE, FALSE, 0),
    Game("Final", FALSE, FALSE, 0) }

Schedules == UNION { [1..n -> GameSet] : n \in 0..MaxGames }
DateStrings == {"past", "yesterday", "today", "future"}
TickSet == {30, MINUTE, HOUR}

DayIdle ==
  /\ now = 0 /\ nTicks = 0 /\ dateString = "today" /\ schedule = <<>> /\ dayPc = "parked"
  /\ currentDate = 0 /\ cache_file_exists = FALSE /\ cache_file = <<>>
  /\ expirySet = FALSE /\ dateCacheExpiry = At(0)

\* the server has no entry for the date yet
DayInit ==
  /\ now = 0 /\ nTicks = 0
  /\ dateString \in DateStrings
  /\ schedule \in Schedules
  /\ dayPc = "idle" /\ currentDate = 0
  /\ cache_file_exists = FALSE /\ cache_file = <<>>
  /\ expirySet = FALSE /\ dateCacheExpiry = At(0)

\* a check that forgets the expiry
dayMissWithoutExpiry == ~cache_file_exists \/ ~expirySet

\* part_001 697: the entry is missing or its expiry has passed
dayMiss == ~cache_file_exists \/ ~expirySet \/ isPast(dateCacheExpiry, now)

\* part_001 685-711 and 760-765: a call of getDayData; it starts a fetch on
\* a miss and reads the payload file on a hit
DayCall ==
  /\ UNCHANGED otherThanDay
  /\ dayPc \notin {"parked", "fetching"}
  /\ currentDate' = now
  /\ dayPc' = (IF dayMiss THEN "fetching" ELSE "cached")
  /\ UNCHANGED <<now, nTicks, dateString, schedule, cache_file_exists, cache_file,
                 expirySet, dateCacheExpiry>>

\* part_001 711-769: the upstream answers. A body that is not JSON leaves
\* the entry alone; a schedule is saved, then its expiry is worked out and
\* set, unless working it out throws
DayResponse(valid) ==
  /\ UNCHANGED otherThanDay
  /\ dayPc = "fetching"
  /\ IF ~valid
       THEN /\ dayPc' = "invalid"
            /\ UNCHANGED <<cache_file_exists, cache_file, expirySet, dateCacheExpiry>>
       ELSE LET r == dayExpiry(dateString, schedule, currentDate, now)
            IN /\ cache_file_exists' = TRUE
               /\ cache_file' = schedule
               /\ dayPc' = (IF r.threw THEN "threw" ELSE "fetched")
               /\ expirySet' = (expirySet \/ ~r.threw)
               /\ dateCacheExpiry' = (IF r.threw THEN dateCacheExpiry ELSE r.expiry)
  /\ UNCHANGED <<now, nTicks, dateString, schedule, currentDate>>

\* time passes
DayTick(dt) ==
  /\ UNCHANGED otherThanDay
  /\ nTicks < MaxTicks
  /\ now' = now + dt
  /\ nTicks' = nTicks + 1
  /\ UNCHANGED <<dateString, schedule, dayPc, currentDate, cache_file_exists, cache_file,
                 expirySet, dateCacheExpiry>>

DayNext ==
  \/ DayCall
  \/ \E valid \in BOOLEAN : DayResponse(valid)
  \/ \E dt \in TickSet : DayTick(dt)

(***************************************************************************)
(* part_001 1040-1098: getGamedayData and the cache entry of one game.     *)
(***************************************************************************)
\* part_001 1067: the default expiry, hours after the response
GAMEDAY_EXPIRY_HOURS == 1
\* part_001 1072: the expiry of a game in progress, minutes after currentDate
GAMEDAY_LIVE_EXPIRY_MINUTES == 5

\* a live feed: gameData.status and gameData.datetime.officialDate, the
\* latter in days after today
Feed(state, suspended, officialDate) ==
  [gameData |-> TRUE, abstractGameState |-> state, suspended |-> suspended,
   officialDate |-> officialDate]
\* a JSON body that has no gameData
NoGameData ==
  [gameData |-> FALSE, abstractGameState |-> "", suspended |-> FALSE, officialDate |-> 0]

\* an expiry that is the default whatever the game
gamedayExpiryDefault(feed, cur, t) ==
  [threw |-> ~feed.gameData, expiry |-> At(t + GAMEDAY_EXPIRY_HOURS * HOUR)]

\* part_001 1065-1084: the expiry of a feed fetched by a call that started
\* at cur and was answered at t; threw when the feed has no gameData
gamedayExpiry(feed, cur, t) ==
  IF ~feed.gameData
    THEN [threw |-> TRUE, expiry |-> At(t + GAMEDAY_EXPIRY_HOURS * HOUR)]
  ELSE IF feed.abstractGameState = "Live" /\ ~feed.suspended
    THEN [threw |-> FALSE, expiry |-> At(cur + GAMEDAY_LIVE_EXPIRY_MINUTES * MINUTE)]
  ELSE IF feed.officialDate < 0
    THEN [threw |-> FALSE, expiry |-> Forever]
  ELSE [threw |-> FALSE, expiry |-> At(t + GAMEDAY_EXPIRY_HOURS * HOUR)]

\* the feeds the upstream serves: games in progress, suspended, over and to
\* come, of yesterday and of today, and a body without gameData
FeedSet ==
  { Feed("Live", FALSE, 0), Feed("Live", FALSE, -1),
    Feed("Live", TRUE, 0), Feed("Live", TRUE, -1),
    Feed("Final", FALSE, 0), Feed("Final", FALSE, -1),
    Feed("Preview", FALSE, 0), NoGameData }

GamedayIdle ==
  /\ gdPc = "parked" /\ gdCurrentDate = 0 /\ gdFileExists = FALSE /\ gdFile = NoGameData
  /\ gdExpirySet = FALSE /\ gamedayCacheExpiry = At(0)

\* the server has no entry for the game yet
GamedayInit ==
  /\ gdPc = "idle" /\ gdCurrentDate = 0 /\ gdFileExists = FALSE /\ gdFile = NoGameData
  /\ gdExpirySet = FALSE /\ gamedayCacheExpiry = At(0)

\* part_001 1048: the entry is missing or its expiry has passed
gamedayMiss == ~gdFileExists \/ ~gdExpirySet \/ isPast(gamedayCacheExpiry, now)

\* part_001 1040-1059 and 1088-1094: a call of getGamedayData; it starts a
\* fetch on a miss and reads the payload file on a hit
GamedayCall ==
  /\ UNCHANGED otherThanGameday
  /\ gdPc \notin {"parked", "fetching"}
  /\ gdCurrentDate' = now
  /\ gdPc' = (IF gamedayMiss THEN "fetching" ELSE "cached")
  /\ UNCHANGED <<gdFileExists, gdFile, gdExpirySet, gamedayCacheExpiry>>

\* part_001 1059-1097: the upstream answers. A body that is not JSON is
\* logged and leaves the entry alone; a feed is saved, then its expiry is
\* worked out and set, unless working it out throws
GamedayResponse(valid, feed) ==
  /\ UNCHANGED otherThanGameday
  /\ gdPc = "fetching"
  /\ IF ~valid
       THEN /\ gdPc' = "invalid"
            /\ UNCHANGED <<gdFileExists, gdFile, gdExpirySet, gamedayCacheExpiry>>
       ELSE LET r == gamedayExpiry(feed, gdCurrentDate, now)
            IN /\ gdFileExists' = TRUE
               /\ gdFile' = feed
               /\ gdPc' = (IF r.threw THEN "threw" ELSE "fetched")
               /\ gdExpirySet' = (gdExpirySet \/ ~r.threw)
               /\ gamedayCacheExpiry' = (IF r.threw THEN gamedayCacheExpiry ELSE r.expiry)
  /\ UNCHANGED gdCurrentDate

GamedayNext ==
  \/ GamedayCall
  \/ \E feed \in FeedSet : GamedayResponse(TRUE, feed)
  \/ GamedayResponse(FALSE, NoGameData)

(***************************************************************************)
(* part_001 312-319 and 487-520: getStreamURL and the cached stream URL of *)
(* one game.                                                               *)
(***************************************************************************)
\* part_001 316: let seconds_to_expire = 60
STREAM_URL_EXPIRY_SECONDS == 60

\* the URLs the playback service hands out, 0 for a body without a url
StreamURLs == {1, 2}

StreamIdle ==
  /\ suPc = "parked" /\ suCalled = 0 /\ streamURL = 0 /\ streamURLExpiry = 0
  /\ suStored = 0 /\ suReturned = 0

\* the server has no stream URL for the game yet
StreamInit ==
  /\ suPc = "idle" /\ suCalled = 0 /\ streamURL = 0 /\ streamURLExpiry = 0
  /\ suStored = 0 /\ suReturned = 0

\* a check that forgets the expiry
streamHitWithoutExpiry == streamURL # 0

\* part_001 489: a stream URL is cached and its expiry is still to come
streamHit == streamURL # 0 /\ streamURLExpiry # 0 /\ streamURLExpiry > now

\* part_001 487-492: a call of getStreamURL; it returns the cached URL on a
\* hit and asks the playback service otherwise
StreamCall ==
  /\ UNCHANGED otherThanStream
  /\ suPc \notin {"parked", "fetching"}
  /\ suCalled' = now
  /\ suPc' = (IF streamHit THEN "cached" ELSE "fetching")
  /\ suReturned' = (IF streamHit THEN streamURL ELSE 0)
  /\ UNCHANGED <<streamURL, streamURLExpiry, suStored>>

\* part_001 508-518 and 312-319: the playback service answers. A body with
\* a url is cached for 60 seconds and returned; any other body returns
\* undefined and leaves the cache alone
StreamResponse(u) ==
  /\ UNCHANGED otherThanStream
  /\ suPc = "fetching"
  /\ IF u = 0
       THEN /\ suPc' = "failed"
            /\ suReturned' = 0
            /\ UNCHANGED <<streamURL, streamURLExpiry, suStored>>
       ELSE /\ suPc' = "fetched"
            /\ suReturned' = u
            /\ streamURL' = u
            /\ streamURLExpiry' = now + STREAM_URL_EXPIRY_SECONDS
            /\ suStored' = now
  /\ UNCHANGED suCalled

StreamNext ==
  \/ StreamCall
  \/ \E u \in StreamURLs : StreamResponse(u)
  \/ StreamResponse(0)


(***************************************************************************)
(* part_001 1140-1268 and index.js 553-558: the list getSkipMarkers leaves *)
(* in temp_cache over several calls for one game, and the /playlist        *)
(* request that reads it.                                                  *)
(***************************************************************************)
\* calls of getSkipMarkers before the /playlist request
MaxSkipCalls == 3

\* what getGamedayData hands to getSkipMarkers: "plays" is data the loops
\* can read; "absent" is no data, or data without liveData.plays.allPlays;
\* "malformed" is an allPlays whose plays cannot be read (a play without
\* about or playEvents), on which the loops throw a TypeError
PlayData == {"plays", "absent", "malformed"}

\* lists the loops build from readable data
MarkerLists ==
  { <<>>,
    <<[break_start |-> 0, break_end |-> 6]>>,
    <<[break_start |-> 0, break_end |-> 6], [break_start |-> 10, break_end |-> 14]>> }

\* media playlists of one to three segments of 4 seconds
SegmentBodies ==
  { <<M("EXTM3U", 0, <<>>, <<>>)>>
      \o [i \in 1..(2 * n) |-> IF i % 2 = 1 THEN M("EXTINF", SECONDS_PER_SEGMENT, <<>>, <<>>)
                                            ELSE M("URI", 0, <<"a">>, <<>>)]
    : n \in 1..3 }

\* index.js 216-235: what a /stream.m3u8 request asked getSkipMarkers for, and
\* got, before it answered with its playlist links
StreamLink(data, list) == [data |-> data, list |-> list]
NoLink == StreamLink("none", <<>>)

TempCacheIdle ==
  /\ tcSet = FALSE /\ tcMarkers = <<>> /\ gsData = "none" /\ gsCalls = 0
  /\ tcLinks = {} /\ plFor = NoLink

\* part_001 1127-1130: getBroadcastStart has made temp_cache[gamePk], which
\* holds no skip_markers yet; a media playlist of the game is at hand
TempCacheInit ==
  /\ TempCacheIdle
  /\ meLines \in SegmentBodies /\ meOptions = DefaultMediaOptions /\ meOut = <<>>
  /\ meThrew = FALSE /\ meDone = FALSE

\* part_001 1140-1267 and index.js 216-235: one call of getSkipMarkers by a
\* /stream.m3u8 request with skip options, which then answers with its
\* links. Without data the loops are not entered and the empty list is
\* stored; with readable data the list the loops built from the options of
\* the request is stored; when the loops throw, the catch logs and
\* temp_cache is left as it was
GetSkipMarkers(data, list) ==
  /\ UNCHANGED otherThanTempCache
  /\ ~meDone /\ gsCalls < MaxSkipCalls
  /\ gsData' = data
  /\ gsCalls' = gsCalls + 1
  /\ tcLinks' = tcLinks \cup {StreamLink(data, IF data = "plays" THEN list ELSE <<>>)}
  /\ plFor' = plFor
  /\ IF data = "malformed"
       THEN UNCHANGED <<tcSet, tcMarkers>>
       ELSE /\ tcSet' = TRUE
            /\ tcMarkers' = (IF data = "absent" THEN <<>> ELSE list)
  /\ UNCHANGED mediaVars

\* index.js 553-558 and 560-636: /playlist, by a link of one of the stream
\* requests, reads the list of the game when it is defined, and rewrites
\* the fetched body
SkipPlaylist(link) ==
  /\ UNCHANGED otherThanTempCache
  /\ ~meDone /\ gsCalls > 0 /\ link \in tcLinks
  /\ plFor' = link
  /\ LET o == [meOptions EXCEPT !.skip_markers = IF tcSet THEN tcMarkers ELSE <<>>]
         r == rewriteMedia(meLines, o)
     IN /\ meOptions' = o
        /\ meOut' = (IF r.threw THEN <<>> ELSE r.body)
        /\ meThrew' = r.threw
  /\ meDone' = TRUE
  /\ UNCHANGED <<meLines, tcSet, tcMarkers, gsData, gsCalls, tcLinks>>

TempCacheNext ==
  \/ \E data \in PlayData, list \in MarkerLists : GetSkipMarkers(data, list)
  \/ \E link \in tcLinks : SkipPlaylist(link)

(***************************************************************************)
(* part_001 685-769: concurrent calls of getDayData for one date of today. *)
(* A call runs without interruption up to its await of httpGet, and from   *)
(* the answer to its end.                                                  *)
(***************************************************************************)
Callers == {1, 2}
\* upstream answers of one run
MaxFetches == 3

\* the schedules the upstream serves while the day goes on
RaceSchedules ==
  { <<Game("Preview", FALSE, FALSE, 2 * HOUR)>>,
    <<Game("Live", FALSE, FALSE, 0)>>,
    <<Game("Preview", FALSE, TRUE, 0)>>,
    <<Game("Final", FALSE, FALSE, 0)>> }

RaceIdle ==
  /\ rcPc = [c \in Callers |-> "parked"] /\ rcCurrentDate = [c \in Callers |-> 0]
  /\ rcFetches = 0 /\ rcFile = 0 /\ rcExpiryOf = 0 /\ rcExpiry = At(0)

\* the server has no entry for the date yet
RaceInit ==
  /\ rcPc = [c \in Callers |-> "idle"] /\ rcCurrentDate = [c \in Callers |-> 0]
  /\ rcFetches = 0 /\ rcFile = 0 /\ rcExpiryOf = 0 /\ rcExpiry = At(0)

\* part_001 697: the entry is missing or its expiry has passed
raceMiss == rcFile = 0 \/ rcExpiryOf = 0 \/ isPast(rcExpiry, now)

\* part_001 685-711 and 760-765: caller c calls getDayData
RaceCall(c) ==
  /\ UNCHANGED otherThanRace
  /\ rcPc[c] \notin {"parked", "fetching"}
  /\ rcCurrentDate' = [rcCurrentDate EXCEPT ![c] = now]
  /\ rcPc' = [rcPc EXCEPT ![c] = IF raceMiss THEN "fetching" ELSE "cached"]
  /\ UNCHANGED <<rcFetches, rcFile, rcExpiryOf, rcExpiry>>
  /\ UNCHANGED dayVars

\* part_001 711-769: the upstream answers caller c. A body that is not JSON
\* leaves the entry alone; a schedule is saved, then its expiry is worked
\* out and set, unless working it out throws
RaceResponse(c, valid, games) ==
  /\ UNCHANGED otherThanRace
  /\ rcPc[c] = "fetching" /\ rcFetches < MaxFetches
  /\ rcFetches' = rcFetches + 1
  /\ IF ~valid
       THEN /\ rcPc' = [rcPc EXCEPT ![c] = "invalid"]
            /\ UNCHANGED <<rcFile, rcExpiryOf, rcExpiry>>
       ELSE LET r == dayExpiry("today", games, rcCurrentDate[c], now)
            IN /\ rcFile' = rcFetches'
               /\ rcPc' = [rcPc EXCEPT ![c] = IF r.threw THEN "threw" ELSE "fetched"]
               /\ rcExpiryOf' = (IF r.threw THEN rcExpiryOf ELSE rcFetches')
               /\ rcExpiry' = (IF r.threw THEN rcExpiry ELSE r.expiry)
  /\ UNCHANGED rcCurrentDate
  /\ UNCHANGED dayVars

RaceNext ==
  \/ \E c \in Callers : RaceCall(c)
  \/ \E c \in Callers, games \in RaceSchedules : RaceResponse(c, TRUE, games)
  \/ \E c \in Callers : RaceResponse(c, FALSE, <<>>)
  \/ \E dt \in TickSet : DayTick(dt)

(***************************************************************************)
(* index.js 161-243: the handler of /stream.m3u8. It runs from one await   *)
(* to the next without interruption; shEnds counts the calls that end the  *)
(* response of the request.                                                *)
(***************************************************************************)
NHandlers == 2
Handlers == 1..NHandlers
Queries == {"sample", "src", "gamePk", "teamId"}

HandlerIdle ==
  /\ shPc = [h \in Handlers |-> "parked"] /\ shQuery = [h \in Handlers |-> "sample"]
  /\ shSkips = [h \in Handlers |-> FALSE] /\ shGamePk = [h \in Handlers |-> FALSE]
  /\ shEnds = [h \in Handlers |-> 0]

HandlerInit ==
  /\ shPc = [h \in Handlers |-> "idle"] /\ shQuery = [h \in Handlers |-> "sample"]
  /\ shSkips = [h \in Handlers |-> FALSE] /\ shGamePk = [h \in Handlers |-> FALSE]
  /\ shEnds = [h \in Handlers |-> 0]

\* index.js 213-238: the handler behind the resolution of the stream URL, run
\* after n calls that ended the response: with a stream URL it awaits
\* getBroadcastStart and getSkipMarkers when the options and a gamePk ask
\* for them, else it calls getMasterPlaylist; without one it logs and calls
\* res.end
haveStreamURL(h, hasURL, skips, gamePk, n) ==
  IF hasURL
    THEN /\ shPc' = [shPc EXCEPT ![h] = IF skips /\ gamePk THEN "getSkipMarkers" ELSE "master"]
         /\ shEnds' = [shEnds EXCEPT ![h] = n]
    ELSE /\ shPc' = [shPc EXCEPT ![h] = "done"]
         /\ shEnds' = [shEnds EXCEPT ![h] = n + 1]

\* index.js 162 and 744-769: protect rejects the request with res.error(401)
ProtectRejects(h) ==
  /\ UNCHANGED otherThanHandler
  /\ shPc[h] = "idle"
  /\ shPc' = [shPc EXCEPT ![h] = "done"]
  /\ shEnds' = [shEnds EXCEPT ![h] = @ + 1]
  /\ UNCHANGED <<shQuery, shSkips, shGamePk>>

\* index.js 164-209: the request is let in; the sample stream and a src
\* parameter give the stream URL at once, a gamePk parameter awaits
\* getStreamURL, a teamId parameter awaits getGamePk
StreamRequest(h, q, skips) ==
  /\ UNCHANGED otherThanHandler
  /\ shPc[h] = "idle"
  /\ shQuery' = [shQuery EXCEPT ![h] = q]
  /\ shSkips' = [shSkips EXCEPT ![h] = skips /\ q # "sample"]
  /\ shGamePk' = [shGamePk EXCEPT ![h] = (q = "gamePk")]
  /\ IF q \in {"sample", "src"}
       THEN haveStreamURL(h, TRUE, skips /\ q # "sample", FALSE, shEnds[h])
       ELSE /\ shPc' = [shPc EXCEPT ![h] = IF q = "gamePk" THEN "getStreamURL" ELSE "getGamePk"]
            /\ UNCHANGED shEnds

\* index.js 199-208: getGamePk returns; with a gamePk the handler awaits
\* getStreamURL; without one it logs, calls res.end and goes on to 213
\* with no stream URL
GetGamePkReturns(h, found) ==
  /\ UNCHANGED otherThanHandler
  /\ shPc[h] = "getGamePk"
  /\ shGamePk' = [shGamePk EXCEPT ![h] = found]
  /\ IF found
       THEN /\ shPc' = [shPc EXCEPT ![h] = "getStreamURL"]
            /\ UNCHANGED shEnds
       ELSE haveStreamURL(h, FALSE, shSkips[h], FALSE, shEnds[h] + 1)
  /\ UNCHANGED <<shQuery, shSkips>>

\* index.js 208 and part_001 487-519: getStreamURL returns a URL or
\* undefined, or it throws on a response it cannot read; the catch of 240-243
\* logs and calls res.end
GetStreamURLReturns(h, outcome) ==
  /\ UNCHANGED otherThanHandler
  /\ shPc[h] = "getStreamURL"
  /\ IF outcome = "throws"
       THEN /\ shPc' = [shPc EXCEPT ![h] = "done"]
            /\ shEnds' = [shEnds EXCEPT ![h] = @ + 1]
       ELSE haveStreamURL(h, outcome = "url", shSkips[h], shGamePk[h], shEnds[h])
  /\ UNCHANGED <<shQuery, shSkips, shGamePk>>

\* index.js 224-236: getBroadcastStart and getSkipMarkers return and
\* getMasterPlaylist is called, or getBroadcastStart throws into the catch
GetSkipMarkersReturns(h, throws) ==
  /\ UNCHANGED otherThanHandler
  /\ shPc[h] = "getSkipMarkers"
  /\ IF throws
       THEN /\ shPc' = [shPc EXCEPT ![h] = "done"]
            /\ shEnds' = [shEnds EXCEPT ![h] = @ + 1]
       ELSE /\ shPc' = [shPc EXCEPT ![h] = "master"]
            /\ UNCHANGED shEnds
  /\ UNCHANGED <<shQuery, shSkips, shGamePk>>

\* index.js 313-340 and 471: the callback of getMasterPlaylist answers with
\* respond, or with res.error for a failed fetch, or returns without an
\* answer for a body that is not HLS
MasterAnswers(h, outcome) ==
  /\ UNCHANGED otherThanHandler
  /\ shPc[h] = "master"
  /\ shPc' = [shPc EXCEPT ![h] = "done"]
  /\ shEnds' = [shEnds EXCEPT ![h] = IF outcome = "not hls" THEN @ ELSE @ + 1]
  /\ UNCHANGED <<shQuery, shSkips, shGamePk>>

HandlerNext ==
  \/ \E h \in Handlers : ProtectRejects(h)
  \/ \E h \in Handlers, q \in Queries, skips \in BOOLEAN : StreamRequest(h, q, skips)
  \/ \E h \in Handlers, found \in BOOLEAN : GetGamePkReturns(h, found)
  \/ \E h \in Handlers, outcome \in {"url", "undefined", "throws"} : GetStreamURLReturns(h, outcome)
  \/ \E h \in Handlers, throws \in BOOLEAN : GetSkipMarkersReturns(h, throws)
  \/ \E h \in Handlers, outcome \in {"body", "error", "not hls"} : MasterAnswers(h, outcome)

(***************************************************************************)
(* Specifications. Spec runs the server and its requests; SpecMaster and   *)
(* SpecMedia run the rewrites on every playlist and request of their sets; *)
(* SpecSkip runs getSkipMarkers over every play-by-play data of its bounds, *)
(* SpecCache the calls of getDayData for one date, of getGamedayData for   *)
(* one game or of getStreamURL for one game while time passes,             *)
(* SpecTempCache the calls of getSkipMarkers for one game and the          *)
(* /playlist request that follows them.                                     *)
(***************************************************************************)
Init ==
  /\ HandlerIdle
  /\ ServerInit /\ MasterIdle /\ MediaIdle /\ SkipIdle /\ DayIdle
  /\ GamedayIdle /\ StreamIdle /\ TempCacheIdle /\ RaceIdle
Next == ServerNext
Spec == Init /\ [][Next]_vars

InitMaster ==
  /\ HandlerIdle
  /\ ServerInit /\ MasterInit /\ MediaIdle /\ SkipIdle /\ DayIdle
  /\ GamedayIdle /\ StreamIdle /\ TempCacheIdle /\ RaceIdle
NextMaster == RewriteMaster
SpecMaster == InitMaster /\ [][NextMaster]_vars

InitMedia ==
  /\ HandlerIdle
  /\ ServerInit /\ MasterIdle /\ MediaInit /\ SkipIdle /\ DayIdle
  /\ GamedayIdle /\ StreamIdle /\ TempCacheIdle /\ RaceIdle
NextMedia == RewriteMedia
SpecMedia == InitMedia /\ [][NextMedia]_vars

InitPad ==
  /\ HandlerIdle
  /\ ServerInit /\ MasterIdle /\ PadInit /\ SkipIdle /\ DayIdle
  /\ GamedayIdle /\ StreamIdle /\ TempCacheIdle /\ RaceIdle
NextPad == RewriteMedia
SpecPad == InitPad /\ [][NextPad]_vars

(***************************************************************************)
(* index.js 553-556: /playlist requests of a game whose list of skip       *)
(* markers is in temp_cache, on media playlists of 4-second segments.      *)
(***************************************************************************)
MaxSegments == 3

SEGMENT_NAMES == <<"a", "b", "c", "d">>

RECURSIVE segmentLines(_, _, _)
\* segments from..n: #EXTINF:4 and the URI line behind it, for some of them
\* with a tag line (#EXT-X-PROGRAM-DATE-TIME) in front
segmentLines(n, tagged, from) ==
  IF from > n THEN <<>>
  ELSE (IF tagged[from] THEN <<M("TAG", 0, <<>>, <<>>)>> ELSE <<>>)
       \o <<M("EXTINF", SECONDS_PER_SEGMENT, <<>>, <<>>), M("URI", 0, <<SEGMENT_NAMES[from]>>, <<>>)>>
       \o segmentLines(n, tagged, from + 1)

MarkedBodies ==
  UNION { { <<M("EXTM3U", 0, <<>>, <<>>)>> \o segmentLines(n, tagged, 1)
              \o (IF closed THEN <<ENDLIST>> ELSE <<>>)
            : tagged \in [1..n -> BOOLEAN], closed \in BOOLEAN }
          : n \in 1..MaxSegments }

\* sorted lists of intervals that do not overlap; in one of them the second
\* interval begins where the first ends, at the end of the second segment
MarkedLists ==
  { <<[break_start |-> 0, break_end |-> 6]>>,
    <<[break_start |-> 6, break_end |-> 10]>>,
    <<[break_start |-> 2, break_end |-> 10]>>,
    <<[break_start |-> 0, break_end |-> 6], [break_start |-> 10, break_end |-> 14]>>,
    <<[break_start |-> 2, break_end |-> 8], [break_start |-> 8, break_end |-> 14]>>,
    <<[break_start |-> 4, break_end |-> 5], [break_start |-> 8, break_end |-> 9]>> }

\* the body has been fetched for a /playlist request that uses the list
MarkedInit ==
  /\ meLines \in MarkedBodies
  /\ meOptions \in {[DefaultMediaOptions EXCEPT !.skip_markers = l] : l \in MarkedLists}
  /\ meOut = <<>>
  /\ meThrew = FALSE
  /\ meDone = FALSE

InitMarked ==
  /\ HandlerIdle
  /\ ServerInit /\ MasterIdle /\ MarkedInit /\ SkipIdle /\ DayIdle
  /\ GamedayIdle /\ StreamIdle /\ TempCacheIdle /\ RaceIdle
NextMarked == RewriteMedia
SpecMarked == InitMarked /\ [][NextMarked]_vars

RECURSIVE segmentLinesWithTag(_, _, _)
\* segments from..n: #EXTINF:4 and the URI line, for some of them with a tag
\* line (#EXT-X-PROGRAM-DATE-TIME, #EXT-X-BYTERANGE) between the two
segmentLinesWithTag(n, between, from) ==
  IF from > n THEN <<>>
  ELSE <<M("EXTINF", SECONDS_PER_SEGMENT, <<>>, <<>>)>>
       \o (IF between[from] THEN <<M("TAG", 0, <<>>, <<>>)>> ELSE <<>>)
       \o <<M("URI", 0, <<SEGMENT_NAMES[from]>>, <<>>)>>
       \o segmentLinesWithTag(n, between, from + 1)

BetweenBodies ==
  UNION { { <<M("EXTM3U", 0, <<>>, <<>>)>> \o segmentLinesWithTag(n, between, 1)
              \o (IF closed THEN <<ENDLIST>> ELSE <<>>)
            : between \in [1..n -> BOOLEAN], closed \in BOOLEAN }
          : n \in 1..MaxSegments }

\* the body has been fetched for a /playlist request that uses the list
BetweenInit ==
  /\ meLines \in BetweenBodies
  /\ meOptions \in {[DefaultMediaOptions EXCEPT !.skip_markers = l] : l \in MarkedLists}
  /\ meOut = <<>>
  /\ meThrew = FALSE
  /\ meDone = FALSE

InitBetween ==
  /\ HandlerIdle
  /\ ServerInit /\ MasterIdle /\ BetweenInit /\ SkipIdle /\ DayIdle
  /\ GamedayIdle /\ StreamIdle /\ TempCacheIdle /\ RaceIdle
NextBetween == RewriteMedia
SpecBetween == InitBetween /\ [][NextBetween]_vars

InitKey ==
  /\ HandlerIdle
  /\ ServerInit /\ MasterIdle /\ KeyInit /\ SkipIdle /\ DayIdle
  /\ GamedayIdle /\ StreamIdle /\ TempCacheIdle /\ RaceIdle
NextKey == RewriteMedia
SpecKey == InitKey /\ [][NextKey]_vars

InitSkip ==
  /\ HandlerIdle
  /\ ServerInit /\ MasterIdle /\ MediaIdle /\ SkipInit /\ DayIdle
  /\ GamedayIdle /\ StreamIdle /\ TempCacheIdle /\ RaceIdle
NextSkip == SkipNext
SpecSkip == InitSkip /\ [][NextSkip]_vars

InitTempCache ==
  /\ HandlerIdle
  /\ ServerInit /\ MasterIdle /\ SkipIdle /\ DayIdle /\ GamedayIdle /\ StreamIdle
  /\ TempCacheInit /\ RaceIdle
NextTempCache == TempCacheNext
SpecTempCache == InitTempCache /\ [][NextTempCache]_vars

InitRace ==
  /\ HandlerIdle
  /\ ServerInit /\ MasterIdle /\ MediaIdle /\ SkipIdle /\ DayIdle
  /\ GamedayIdle /\ StreamIdle /\ TempCacheIdle /\ RaceInit
NextRace == RaceNext
SpecRace == InitRace /\ [][NextRace]_vars

InitCache ==
  /\ HandlerIdle
  /\ ServerInit /\ MasterIdle /\ MediaIdle /\ SkipIdle /\ TempCacheIdle /\ RaceIdle
  /\ \/ DayInit /\ GamedayIdle /\ StreamIdle
     \/ DayIdle /\ GamedayInit /\ StreamIdle
     \/ DayIdle /\ GamedayIdle /\ StreamInit
NextCache == DayNext \/ GamedayNext \/ StreamNext
SpecCache == InitCache /\ [][NextCache]_vars

InitHandler ==
  /\ ServerInit /\ MasterIdle /\ MediaIdle /\ SkipIdle /\ DayIdle
  /\ GamedayIdle /\ StreamIdle /\ TempCacheIdle /\ RaceIdle /\ HandlerInit
NextHandler == HandlerNext
SpecHandler == InitHandler /\ [][NextHandler]_vars

(***************************************************************************)
(* Claims about getMasterPlaylist (specification SpecMaster).              *)
(***************************************************************************)
isVariant(ln) == ln.k = "STREAM-INF"
isIFrame(ln) == ln.k = "I-FRAME"

\* a body is a master playlist when it lists no segment
isMaster(lines) == \A i \in 1..Len(lines) : lines[i].k # "EXTINF"

RECURSIVE nthVariant(_, _, _)
\* the position of the n-th variant line of lines at or behind position i
nthVariant(lines, n, i) ==
  IF i > Len(lines) THEN 0
  ELSE IF isVariant(lines[i])
    THEN IF n = 1 THEN i ELSE nthVariant(lines, n - 1, i + 1)
    ELSE nthVariant(lines, n, i + 1)

variants(lines) == SelectSeq(lines, isVariant)

Rewritten == mDone /\ isMaster(mLines)

\* C4: for a non-adaptive resolution the rewritten master playlist holds at
\* most one variant line, and exactly one iff some variant line of the input
\* has the requested height and frame rate; of several matching lines only the
\* first survives.
C4_AtMostOneVariant ==
  (Rewritten /\ mOptions.resolution # ADAPTIVE) =>
    LET matching == SelectSeq(variants(mLines), LAMBDA ln : trackMatches(ln, mOptions.resolution))
    IN /\ Len(variants(mOut)) <= 1
       /\ (Len(variants(mOut)) = 1 <=> matching # <<>>)
       /\ (matching # <<>> => variants(mOut) = <<matching[1]>>)

\* C5: with resolution 'adaptive' every variant line is kept, in order, the
\* URI line behind a variant line is rewritten to a 'playlist?url=' link whose
\* url parameter decodes to that URI resolved against the stream URL, no
\* I-FRAME line is kept, and as many variants leave as non-iframe variants came.
C5_AdaptiveKeepsVariants ==
  (Rewritten /\ mOptions.resolution = ADAPTIVE) =>
    /\ variants(mOut) = variants(mLines)
    /\ \A j \in 1..Len(mOut) : ~isIFrame(mOut[j])
    /\ \A n \in 1..Len(variants(mLines)) :
         LET i == nthVariant(mLines, n, 1)
             j == nthVariant(mOut, n, 1)
         IN (i < Len(mLines) /\ mLines[i + 1].k = "URI") =>
              /\ j > 0 /\ j < Len(mOut)
              /\ mOut[j + 1].k = "URI"
              /\ startsWith(mOut[j + 1].text, PLAYLIST_LINK)
              /\ decodeURIComponent(urlParam(mOut[j + 1].text))
                   = urlResolve(STREAM_URL, trim(mLines[i + 1].text))

\* an adaptive rewrite of a playlist with a variant followed by its URI and
\* with an I-FRAME line
C5_Witness ==
  /\ Rewritten /\ mOptions.resolution = ADAPTIVE
  /\ Len(variants(mLines)) >= 1
  /\ \E i \in 1..Len(mLines) - 1 : isVariant(mLines[i]) /\ mLines[i + 1].k = "URI"
  /\ \E i \in 1..Len(mLines) : isIFrame(mLines[i])

(***************************************************************************)
(* Claims about the /playlist rewrite.                                     *)
(***************************************************************************)
segments(lines) == SelectSeq(lines, LAMBDA ln : ln.k = "URI")
hasKeyTag(lines) == \E i \in 1..Len(lines) : lines[i].k = "KEY"
PlainRewrite ==
  /\ meDone /\ ~meThrew /\ ~hasKeyTag(meLines)
  /\ meOptions.skip_markers = <<>> /\ meOptions.pad = OFF /\ meOptions.force_vod = OFF

\* C6: a media playlist without a key tag, rewritten with no skip, pad or
\* force-VOD option, keeps the number and the order of its segment URI lines,
\* and URL-decoding the url parameter of the i-th output link gives the i-th
\* input segment resolved against the playlist URL.
C6_SegmentsRoundTrip ==
  PlainRewrite =>
    /\ Len(segments(meOut)) = Len(segments(meLines))
    /\ \A i \in 1..Len(segments(meLines)) :
         decodeURIComponent(urlParam(segments(meOut)[i].text))
           = urlResolve(meOptions.u, trim(segments(meLines)[i].text))

\* the rewrite has run on a playlist with a rooted segment holding '&' behind
\* an absolute one holding '%'
C6_Witness ==
  /\ PlainRewrite
  /\ Len(segments(meLines)) >= 2
  /\ segments(meLines)[1].text = <<"h", ":", "/", "/", "x", "/", "s", "%">>
  /\ segments(meLines)[2].text = <<"/", "b", "&", "c", " ">>
  /\ decodeURIComponent(urlParam(segments(meOut)[2].text)) = <<"h", ":", "/", "/", "o", "/", "b", "&", "c">>

(***************************************************************************)
(* Claims about getSkipMarkers.                                            *)
(***************************************************************************)
\* C8: the markers getSkipMarkers stores, under any policy, start inning and
\* adjustment, over any play-by-play data in broadcast order, are sorted and
\* do not overlap: each ends behind its start and not behind the start of the next.
C8_MarkersSorted ==
  skPc = "stored" =>
    \A i \in 1..Len(stored) :
      /\ stored[i].break_end > stored[i].break_start
      /\ (i < Len(stored) => stored[i].break_end <= stored[i + 1].break_start)

\* a list of two markers or more was stored under an adjustment
C8_Witness == skPc = "stored" /\ Len(stored) >= 2 /\ skip_adjust # 0

\* C9: no marker stored under the policy 'breaks' or 'idle time' is shorter
\* than 10 seconds.
C9_MinimumDuration ==
  (skPc = "stored" /\ skip_type \in {1, 2}) =>
    \A i \in 1..Len(stored) : stored[i].break_end - stored[i].break_start >= 10

\* markers were stored under 'breaks' or 'idle time' although an action ended
\* less than 10 seconds of break before the next one
C9_Witness ==
  /\ skPc = "stored" /\ skip_type \in {1, 2} /\ Len(stored) >= 1
  /\ ~break_start.nan /\ nEvents >= 2
  /\ clock + EVENT_START_PADDING + skip_adjust - break_start.v < 10

(***************************************************************************)
(* Claims about the cache of getDayData.                                   *)
(***************************************************************************)
someInProgress(games) == \E i \in 1..Len(games) : inProgress(games[i])

\* C10: when getDayData has fetched the schedule of today in a call that
\* started at T, and a game of the list, wherever it stands, is Live and not
\* suspended, the stored expiry is T + 60 seconds.
C10_LiveGameExpiry ==
  (dayPc \in {"fetched", "threw"} /\ dateString = "today" /\ someInProgress(cache_file)) =>
    /\ expirySet
    /\ dateCacheExpiry = At(currentDate + 60)

(***************************************************************************)
(* Claims about the padding of /playlist.                                  *)
(***************************************************************************)
countLines(lines, k) == Cardinality({i \in 1..Len(lines) : lines[i].k = k})
PadRequested ==
  /\ meDone /\ meOptions.pad # OFF
  /\ meLines[Len(meLines)] = ENDLIST

\* C11: when /playlist answers a pad request on a playlist that ends in
\* #EXT-X-ENDLIST, the output holds exactly one #EXT-X-ENDLIST line, it is the
\* last line, and every padding triple stands before it.
C11_OneEndlist ==
  (PadRequested /\ ~meThrew) =>
    /\ countLines(meOut, "ENDLIST") = 1
    /\ meOut[Len(meOut)] = ENDLIST
    /\ \A i \in 1..Len(meOut) : meOut[i].k = "DISCONTINUITY" => i + 3 <= Len(meOut)

\* C12: a pad request on a playlist that ends in #EXT-X-ENDLIST inserts N
\* triples {#EXT-X-DISCONTINUITY, #EXTINF, URI} with 900 <= N <= 2700, each
\* repeating the last segment of nominal duration.
C12_PadCount ==
  PadRequested =>
    LET N == countLines(meOut, "DISCONTINUITY")
        e == CHOOSE i \in 1..Len(meOut) : meOut[i] = ENDLIST /\ \A h \in 1..(i - 1) : meOut[h] # ENDLIST
        f == lastNominal(meOut, e - 1)
    IN /\ ~meThrew
       /\ (3600 \div 4) <= N /\ N <= (10800 \div 4)
       /\ f > 0
       /\ \A i \in 1..Len(meOut) :
            meOut[i].k = "DISCONTINUITY" =>
              /\ i + 2 <= Len(meOut)
              /\ meOut[i + 1] = meOut[f]
              /\ meOut[i + 2] = meOut[f + 1]

(***************************************************************************)
(* Claims about the three caches (specification SpecCache).                *)
(***************************************************************************)
\* the entry a call found: it exists and the call started no later than its expiry
dayFresh == cache_file_exists /\ expirySet /\ ~isPast(dateCacheExpiry, currentDate)
gamedayFresh == gdFileExists /\ gdExpirySet /\ ~isPast(gamedayCacheExpiry, gdCurrentDate)
streamFresh == streamURL # 0 /\ streamURLExpiry # 0 /\ suCalled <= streamURLExpiry

\* C13: getDayData, getGamedayData and getStreamURL return the cached
\* payload only when an entry exists and the call is no later than the
\* expiry stored for it; a call that finds no entry or a passed expiry
\* refetches, and a refetch that fails returns nothing, not the old payload.
C13_ServedOnlyUnexpired ==
  /\ dayPc = "cached" => dayFresh
  /\ (dayPc \in {"cached", "fetching"} /\ ~dayFresh) => dayPc = "fetching"
  /\ gdPc = "cached" => gamedayFresh
  /\ (gdPc \in {"cached", "fetching"} /\ ~gamedayFresh) => gdPc = "fetching"
  /\ suPc = "cached" => (streamFresh /\ suReturned = streamURL)
  /\ (suPc \in {"cached", "fetching"} /\ ~streamFresh) => suPc = "fetching"
  /\ suPc = "failed" => suReturned = 0

\* a call refetches an entry whose expiry has passed
C13_Witness ==
  /\ dayPc = "fetching" /\ cache_file_exists /\ expirySet
  /\ isPast(dateCacheExpiry, currentDate)

dayEntry == <<cache_file_exists, cache_file, expirySet, dateCacheExpiry>>
gamedayEntry == <<gdFileExists, gdFile, gdExpirySet, gamedayCacheExpiry>>
streamEntry == <<streamURL, streamURLExpiry>>

\* C14: a refetch answered by a body that cannot be parsed leaves payload
\* and expiry of the key as they were; a refetch answered by a body that
\* parses replaces both in the same step: whenever the payload is written
\* the expiry of that fetch is written with it.
C14_ReplacedTogether ==
  [][ /\ (dayPc = "fetching" /\ dayPc' = "invalid") => UNCHANGED dayEntry
      /\ (dayPc = "fetching" /\ dayPc' \notin {"fetching", "invalid"}) =>
           /\ cache_file_exists' /\ cache_file' = schedule
           /\ expirySet' /\ dayPc' = "fetched"
      /\ (gdPc = "fetching" /\ gdPc' = "invalid") => UNCHANGED gamedayEntry
      /\ (gdPc = "fetching" /\ gdPc' \notin {"fetching", "invalid"}) =>
           /\ gdFileExists' /\ gdExpirySet' /\ gdPc' = "fetched"
      /\ (suPc = "fetching" /\ suPc' = "failed") => UNCHANGED streamEntry
      /\ (suPc = "fetching" /\ suPc' = "fetched") =>
           /\ streamURL' # 0 /\ streamURLExpiry' = now + STREAM_URL_EXPIRY_SECONDS
    ]_vars

\* C15: a stream URL stored at time S is served from the cache, with no
\* upstream request, by every call of getStreamURL that starts before
\* S + 60 seconds, and every call that starts after S + 60 seconds asks the
\* upstream again.
C15_SixtySeconds ==
  (suPc \in {"cached", "fetching"} /\ streamURL # 0) =>
    /\ suCalled < suStored + 60 => (suPc = "cached" /\ suReturned = streamURL)
    /\ suCalled > suStored + 60 => suPc = "fetching"

\* a call half a minute after the URL was stored is served from the cache
C15_Witness == suPc = "cached" /\ suCalled = suStored + 30

\* the expiry is d seconds after an instant of the fetch, which runs from
\* the start of the call to the answer
afterTheFetch(e, d, called, answered) == \E t \in called..answered : e = At(t + d)

\* C16: when getGamedayData stores the feed of a game, the expiry it stores
\* is 5 minutes after the fetch if the game is Live and not suspended;
\* otherwise it is the end of time if the official date of the game is
\* before today; otherwise it is 1 hour after the fetch.
C16_GamedayExpiry ==
  [][ (gdPc = "fetching" /\ gdPc' = "fetched") =>
        /\ gdExpirySet'
        /\ IF gdFile'.abstractGameState = "Live" /\ ~gdFile'.suspended
             THEN afterTheFetch(gamedayCacheExpiry', 5 * MINUTE, gdCurrentDate, now)
           ELSE IF gdFile'.officialDate < 0
             THEN gamedayCacheExpiry' = Forever
           ELSE afterTheFetch(gamedayCacheExpiry', HOUR, gdCurrentDate, now)
    ]_vars

\* the feed of a game in progress was stored by a call that started after
\* the server did
C16_Witness ==
  /\ gdPc = "fetched" /\ gdCurrentDate > 0
  /\ gdFile.abstractGameState = "Live" /\ ~gdFile.suspended /\ gdFile.officialDate < 0
  /\ gamedayCacheExpiry = At(gdCurrentDate + 5 * MINUTE)

\* a game without a start time stands right behind a finished game
tbdAfterFinal(games) ==
  \E i \in 2..Len(games) :
    /\ games[i].startTimeTBD /\ games[i].abstractGameState # "Final"
    /\ games[i - 1].abstractGameState = "Final"
\* the games of the list that are still to start and have a start time
toStart(games) ==
  {i \in 1..Len(games) : games[i].abstractGameState = "Preview" /\ ~games[i].startTimeTBD}
nextToStart(games) == CHOOSE i \in toStart(games) : \A k \in toStart(games) : i <= k

\* C17: when getDayData has fetched the schedule of today, no game of it is
\* Live and not suspended, no game without a start time stands behind a
\* finished game, and a game is still to start, the stored expiry is 15
\* minutes before the start of the first such game of the list, whatever
\* stands in front of it.
C17_BeforeNextGame ==
  ( /\ dayPc \in {"fetched", "threw"} /\ dateString = "today"
    /\ ~someInProgress(cache_file) /\ ~tbdAfterFinal(cache_file)
    /\ toStart(cache_file) # {} ) =>
    /\ expirySet
    /\ dateCacheExpiry = At(cache_file[nextToStart(cache_file)].gameDate - 15 * MINUTE)

(***************************************************************************)
(* Claims about the decryption of /ts (specification Spec).                *)
(***************************************************************************)
\* C18: when the decryption of a segment fails, the client of that request
\* receives an error response, neither the segment nor the key is fetched
\* again for it, and the server process keeps running.
C18_DecryptFailureIsTerminal ==
  [][ \A r \in Reqs :
        (pc[r] = "fetching" /\ pc'[r] = "threw") =>
          /\ resp'[r] = "error"
          /\ attempts'[r] = attempts[r] /\ timer'[r] = 0
          /\ alive'
    ]_vars

(***************************************************************************)
(* Claims about missing play-by-play data (specification SpecTempCache).   *)
(***************************************************************************)
\* C19: when the last call of getSkipMarkers for a game found its
\* play-by-play data absent or malformed, the list stored for the game is
\* the empty list, and a /playlist request that follows is answered with
\* the playlist it would get without skip markers: every segment, no error.
C19_MissingDataNoSkip ==
  gsData \in {"absent", "malformed"} =>
    /\ tcSet /\ tcMarkers = <<>>
    /\ meDone =>
         /\ ~meThrew
         /\ meOut = rewriteMedia(meLines, DefaultMediaOptions).body
         /\ Len(segments(meOut)) = Len(segments(meLines))

(***************************************************************************)
(* Claims about key tags (specifications SpecMedia and SpecMaster).        *)
(***************************************************************************)
\* the fetched body lists segments: it is a media playlist
isMediaPlaylist(lines) == \E i \in 1..Len(lines) : lines[i].k = "EXTINF"

\* C20: no '-KEY:METHOD=AES-128' line of a media playlist is in its
\* rewritten output, whatever the options: neither in the output of
\* /playlist nor in the output of getMasterPlaylist when the body it
\* fetched is a media playlist.
C20_NoKeyTag ==
  /\ meDone => ~hasKeyTag(meOut)
  /\ (mDone /\ isMediaPlaylist(mLines)) => ~hasKeyTag(mOut)

(***************************************************************************)
(* Claims about the key of a segment link (specification SpecKey).         *)
(***************************************************************************)
\* the index in lines of the n-th segment URI line
RECURSIVE nthSegment(_, _, _)
nthSegment(lines, n, from) ==
  IF lines[from].k = "URI" THEN (IF n = 1 THEN from ELSE nthSegment(lines, n - 1, from + 1))
  ELSE nthSegment(lines, n, from + 1)
\* the key tags in front of line i
keyTagsBefore(lines, i) == {j \in 1..(i - 1) : lines[j].k = "KEY"}
lastKeyTag(lines, i) ==
  CHOOSE j \in keyTagsBefore(lines, i) : \A h \in keyTagsBefore(lines, i) : h <= j
\* the link of a segment with the key of tag kt and the IV that tag names
linkWithKeyOf(text, kt, o) ==
  extension(o.u) \o QUERY_URL \o encodeURIComponent(urlResolve(o.u, trim(text)))
  \o <<"&", "k", "e", "y", "=">> \o encodeURIComponent(keyOf(kt, o.u))
  \o (IF kt.iv = <<>> THEN <<>>
      ELSE <<"&", "i", "v", "=">> \o encodeURIComponent(toLowerCase(SubSeq(kt.iv, 3, Len(kt.iv)))))
  \o content_protect(o) \o referer_parameter(o)
linkWithoutKey(text, o) ==
  extension(o.u) \o QUERY_URL \o encodeURIComponent(urlResolve(o.u, trim(text)))
  \o content_protect(o) \o referer_parameter(o)

\* C21: every segment link carries the key URI and the IV of the last key
\* tag in front of the segment: no key and no iv parameter when there is no
\* such tag, and no iv parameter when that tag names no IV.
C21_KeyOfLastTag ==
  (meDone /\ ~meThrew /\ meOptions.skip_markers = <<>>) =>
    /\ Len(segments(meOut)) = Len(segments(meLines))
    /\ \A n \in 1..Len(segments(meLines)) :
         LET i == nthSegment(meLines, n, 1)
         IN segments(meOut)[n].text =
              IF keyTagsBefore(meLines, i) = {} THEN linkWithoutKey(meLines[i].text, meOptions)
              ELSE linkWithKeyOf(meLines[i].text, meLines[lastKeyTag(meLines, i)], meOptions)

(***************************************************************************)
(* Claims about concurrent requests (specification SpecTempCache).         *)
(***************************************************************************)
\* C22: when every /stream.m3u8 request of the game found readable
\* play-by-play data, the markers a /playlist request applies are the list
\* computed for the stream request whose link it follows, in whatever
\* order the stream requests ran.
C22_MarkersOfOwnRequest ==
  (meDone /\ \A l \in tcLinks : l.data = "plays") =>
    meOptions.skip_markers = plFor.list

(***************************************************************************)
(* Claims about concurrent writers of one entry (specification SpecRace).  *)
(***************************************************************************)
\* C23: under every interleaving of calls of getDayData that miss on one
\* key, whenever no call is fetching the stored payload and the stored
\* expiry are those of one and the same fetch.
C23_OneWholeWriter ==
  ((\A c \in Callers : rcPc[c] # "fetching") /\ rcFile # 0) => rcExpiryOf = rcFile

(***************************************************************************)
(* Claims about the start inning (specification SpecSkip).                 *)
(***************************************************************************)
\* C24: when the start inning asked for is behind the last inning of the
\* data, getSkipMarkers does not throw: it goes on with the last inning as
\* its start inning and ends by storing a list.
C24_StartInningClamped ==
  (start_inning > final_inning /\ nEvents = 0) => skPc \in {"loop", "stored"}

(***************************************************************************)
(* Claims about a media playlist in getMasterPlaylist (SpecMaster).        *)
(***************************************************************************)
MediaKinds == {"EXTM3U", "EXTINF", "URI", "KEY", "TAG", "BLANK"}
\* a line of getMasterPlaylist as the media rewriter reads it
asMediaLine(ln) ==
  M(ln.k, IF ln.k = "EXTINF" THEN SECONDS_PER_SEGMENT ELSE 0,
    IF ln.k \in {"URI", "KEY"} THEN ln.text ELSE <<>>, <<>>)
asMediaLines(lines) == [i \in 1..Len(lines) |-> asMediaLine(lines[i])]
\* the options /playlist would run with on the same request
asMediaOptions(o) ==
  [DefaultMediaOptions EXCEPT !.u = STREAM_URL, !.force_vod = o.force_vod,
                              !.referer = o.referer, !.content_protect = o.content_protect]

\* C25: when the body fetched by /stream.m3u8 is a media playlist, the
\* answer of getMasterPlaylist is the one the media rewriter gives for the
\* same body and options.
C25_MediaPathTaken ==
  (mDone /\ isMediaPlaylist(mLines) /\ (\A i \in 1..Len(mLines) : mLines[i].k \in MediaKinds)) =>
    asMediaLines(mOut) = rewriteMedia(asMediaLines(mLines), asMediaOptions(mOptions)).body

(***************************************************************************)
(* Claims about force-VOD (specification SpecMedia).                       *)
(***************************************************************************)
\* C26: with force_vod requested, the output of /playlist is the rewritten
\* source playlist, line for line, with one #EXT-X-ENDLIST behind it,
\* whether the source playlist ends with #EXT-X-ENDLIST or not.
C26_ForceVodEndsList ==
  (meDone /\ ~meThrew /\ meOptions.force_vod # OFF) =>
    /\ meOut[Len(meOut)] = ENDLIST
    /\ SubSeq(meOut, 1, Len(meOut) - 1)
         = rewriteMedia(meLines, [meOptions EXCEPT !.force_vod = OFF]).body

\* force_vod was requested for a playlist with a segment that is still open
C26_Witness ==
  /\ meDone /\ ~meThrew /\ meOptions.force_vod # OFF
  /\ Len(segments(meLines)) >= 1 /\ countLines(meLines, "ENDLIST") = 0

(***************************************************************************)
(* Claims about the key cache (specification Spec).                        *)
(***************************************************************************)
\* the key URLs whose key getKey answers from prevKeys
currentKeys == {k \in KeyURLs : keyCached(k)}

\* C27 as stated: the key cache has one slot, so at most one key URL has a
\* current key at any time: the key of an earlier URL is gone once a
\* different key URL was requested, and its next request fetches it again.
C27_SingleSlot == Cardinality(currentKeys) <= 1

\* C27 amended: the key cache has one entry for each key URL, kept for the
\* life of the process: a key once stored stays current whatever other key
\* URL is requested, and getKey starts no upstream fetch for its URL again.
C27_KeyKeptPerURL ==
  [][\A k \in KeyURLs :
       keyCached(k) =>
         /\ keyCached(k)'
         /\ \A r \in Reqs : keyParam'[r] = k =>
               keyFetches'[r] = keyFetches[r]]_vars

\* a /ts request with one key URL was answered, then one with a different key
\* URL, and both keys are current
C27_Witness ==
  \E a, b \in Reqs :
    /\ keyParam[a] \in KeyURLs /\ keyParam[b] \in KeyURLs /\ keyParam[a] # keyParam[b]
    /\ a \in pred[b] /\ resp[a] = "body" /\ resp[b] = "body"
    /\ keyFetches[a] = 1 /\ keyFetches[b] = 1
    /\ keyCached(keyParam[a]) /\ keyCached(keyParam[b])

(***************************************************************************)
(* Claims about skipping in /playlist (specification SpecMarked).          *)
(***************************************************************************)
RECURSIVE endTime(_, _)
\* the sum of the #EXTINF durations of the lines up to line i
endTime(lines, i) ==
  IF i = 0 THEN 0
  ELSE endTime(lines, i - 1) + (IF lines[i].k = "EXTINF" THEN lines[i].dur ELSE 0)
\* t is in [break_start, break_end) of some interval of the list
inSomeBreak(markers, t) ==
  \E i \in 1..Len(markers) : markers[i].break_start <= t /\ t < markers[i].break_end
\* the URI lines of the segments that end outside every interval, as links
linksOutsideBreaks(lines, o) ==
  LET kept == SelectSeq([i \in 1..Len(lines) |-> [ln |-> lines[i], t |-> endTime(lines, i)]],
                        LAMBDA x : x.ln.k = "URI" /\ ~inSomeBreak(o.skip_markers, x.t))
  IN [j \in 1..Len(kept) |-> M("URI", 0, linkWithoutKey(kept[j].ln.text, o), <<>>)]

isDropped(lines, i, out, o) ==
  \A n \in 1..Len(out) : out[n] # M("URI", 0, linkWithoutKey(lines[i].text, o), <<>>)
\* the URI lines in front of line i
urisBefore(lines, i) == {j \in 1..(i - 1) : lines[j].k = "URI"}
\* the dropped segment of URI line i begins a run: the segment in front of
\* it, if any, is in the output
beginsRun(lines, i, out, o) ==
  \/ urisBefore(lines, i) = {}
  \/ ~isDropped(lines, CHOOSE j \in urisBefore(lines, i) : \A h \in urisBefore(lines, i) : h <= j,
                out, o)
RECURSIVE oneTagPerRun(_, _, _, _)
\* the lines from..Len(lines) without their #EXTINF lines, every kept segment
\* as its link, every run of dropped segments as one #EXT-X-DISCONTINUITY in
\* the place of its first segment
oneTagPerRun(lines, from, out, o) ==
  IF from > Len(lines) THEN <<>>
  ELSE (CASE lines[from].k = "EXTINF" -> <<>>
          [] lines[from].k = "URI" ->
               IF isDropped(lines, from, out, o)
                 THEN (IF beginsRun(lines, from, out, o)
                         THEN <<M("DISCONTINUITY", 0, <<>>, <<>>)>> ELSE <<>>)
                 ELSE <<M("URI", 0, linkWithoutKey(lines[from].text, o), <<>>)>>
          [] OTHER -> <<lines[from]>>)
       \o oneTagPerRun(lines, from + 1, out, o)

C30_BreaksMerged ==
  [][(skip_type = 1 /\ nEvents' = nEvents + 1) =>
       /\ (Len(skip_markers') > Len(skip_markers)) =>
            \/ play'.inning # seen.emitted.inning
            \/ play'.half # seen.emitted.half
            \/ seen.breakSince
       /\ (seen'.cat = "break" /\ seen.run >= 1) => break_start' = break_start]_vars

\* behind an interval two break events were read, 30 seconds apart, and
\* the break window starts at the first of them
C30_Witness ==
  /\ skip_type = 1 /\ skip_markers # <<>> /\ seen.run = 2 /\ seen.cat = "break"
  /\ break_start.v + 30 = clock + EVENT_END_PADDING + skip_adjust

(***************************************************************************)
(* Claims about the policy 'off' with a start inning (specification        *)
(* SpecSkip).                                                              *)
(***************************************************************************)
\* C31: under the policy 'off' getSkipMarkers adds at most one interval and
\* reads no event behind it; the interval starts at offset 0 and ends at
\* the first action at or behind the start inning and half (the padded start
\* of the first event past the filter that bounds a break).
C31_OneBoundaryInterval ==
  [][skip_type = 0 =>
       /\ Len(skip_markers) = 1 => (nEvents' = nEvents /\ skip_markers' = skip_markers)
       /\ Len(skip_markers') > Len(skip_markers) =>
            /\ Len(skip_markers') = 1
            /\ skip_markers'[1].break_start = 0
            /\ ~seen.acted
            /\ skip_markers'[1].break_end
                 = prevEvent'.startTime.v + EVENT_START_PADDING + skip_adjust]_vars

(***************************************************************************)
(* Claims about the start filter (specification SpecSkip).                 *)
(***************************************************************************)
\* the play is before the requested inning and half: an earlier inning, or
\* the top of the requested inning when its bottom is requested
beforeStart(p) ==
  \/ p.inning < start_inning
  \/ (p.inning = start_inning /\ start_inning_half = "bottom" /\ p.half = "top")

\* C32: with a start inning, an event of a play before the requested inning
\* and half changes no boundary and no marker, every event of a play at or
\* behind it is looked at, and the first interval added starts at offset 0.
C32_StartFilter ==
  [][(start_inning > 0 /\ nEvents' = nEvents + 1) =>
       /\ beforeStart(play') =>
            (break_start' = break_start /\ skip_markers' = skip_markers)
       /\ beforeStart(play') <=> seen'.cat = "before"
       /\ (Len(skip_markers) = 0 /\ Len(skip_markers') = 1) =>
            skip_markers'[1].break_start = 0]_vars

(***************************************************************************)
(* Claims about the policy 'pitches' (specification SpecSkip).             *)
(***************************************************************************)
\* the event read by the step qualifies under 'pitches': it is past the
\* start filter, no break event, and an action or the last event of its play
qualifies ==
  /\ nEvents' = nEvents + 1
  /\ seen'.cat \in {"action", "pitch"}
  /\ (seen'.cat = "action" \/ ~playOpen')
\* it has an actionPlayId or no end time of its own
fallsBack == seen'.linked \/ prevEvent'.endTime.nan

\* C33: under the policy 'pitches' getSkipMarkers does not throw, also when
\* a qualifying event with an actionPlayId is the first of its play; for a
\* qualifying event that has an actionPlayId or no end time and is not the
\* first of its play, the break ends at the padded start and the next
\* break starts at the padded end of the event in front of it; and no
\* interval is added on a boundary that is not a number.
C33_FallsBackToPreviousEvent ==
  [][(skip_type = 3 /\ start_inning <= final_inning) =>
       /\ skPc' # "threw"
       /\ (qualifies /\ fallsBack /\ evJ' > 1) =>
            /\ break_start'
                 = plus(prevEvent.endTime,
                        EVENT_END_PADDING + skip_adjust
                        + (IF play'.overturned THEN OVERTURNED_PADDING ELSE 0))
            /\ Len(skip_markers') > Len(skip_markers) =>
                 skip_markers'[Len(skip_markers')].break_end
                   = prevEvent.startTime.v + EVENT_START_PADDING + skip_adjust
       /\ Len(skip_markers') > Len(skip_markers) =>
            (~break_start.nan /\ ~prevEvent'.startTime.nan)]_vars

(***************************************************************************)
(* Claims about the padding of the boundaries (specification SpecSkip).    *)
(***************************************************************************)
\* the step adds an interval
addsInterval == Len(skip_markers') = Len(skip_markers) + 1
lastAdded == skip_markers'[Len(skip_markers')]
\* the event whose times bound the break: the event read, or under
\* 'pitches' the event in front of one that has an actionPlayId
boundingEvent == IF skip_type = 3 /\ seen'.linked THEN prevEvent ELSE prevEvent'
\* the trail-out behind the play of the event read
trailOut == EVENT_END_PADDING + (IF play'.overturned THEN OVERTURNED_PADDING ELSE 0)

C35_EndsAtMostOnce == \A h \in Handlers : shEnds[h] <= 1

(***************************************************************************)
(* Claims about the pairing of #EXTINF and URI lines (specification        *)
(* SpecBetween).                                                           *)
(***************************************************************************)
\* the #EXTINF lines and the URI lines of a playlist, in their order
pairLines(lines) == SelectSeq(lines, LAMBDA ln : ln.k \in {"EXTINF", "URI"})

\* C36: with skip markers active, the #EXTINF lines and the segment links of
\* the output of /playlist come in pairs, an #EXTINF line and then its link:
\* no link without its #EXTINF line in front and no #EXTINF line without its
\* link behind, also when a tag line stands between the two in the source.
C36_LinesPaired ==
  (meDone /\ ~meThrew /\ meOptions.skip_markers # <<>>) =>
    LET pl == pairLines(meOut)
    IN /\ Len(pl) % 2 = 0
       /\ \A i \in 1..Len(pl) : pl[i].k = (IF i % 2 = 1 THEN "EXTINF" ELSE "URI")

(***************************************************************************)
(* Claims about the expiry a fetch stores (specification SpecCache).       *)
(***************************************************************************)
\* the expiry is later than time t
laterThan(e, t) == e.forever \/ e.t > t

\* C37: when getDayData has fetched a schedule, getGamedayData a feed or
\* getStreamURL a stream URL, the entry has an expiry that is later than the
\* time of the write, whatever the schedule, so that a call right after the
\* write is answered from the cache.
C37_ExpiryAfterWrite ==
  [][/\ (dayPc = "fetching" /\ dayPc' \in {"fetched", "threw"}) =>
          (expirySet' /\ laterThan(dateCacheExpiry', now'))
     /\ (gdPc = "fetching" /\ gdPc' = "fetched") =>
          (gdExpirySet' /\ laterThan(gamedayCacheExpiry', now'))
     /\ (suPc = "fetching" /\ suPc' = "fetched") =>
          streamURLExpiry' > now']_vars

\* request r calls getKey in this step: the callback of its segment fetch runs
\* with a key URL
callsGetKey(r, k) ==
  /\ kind[r] = "ts" /\ keyParam[r] = k /\ stage[r] = "main" /\ pc[r] = "fetching"
  /\ cbs'[r] = cbs[r] + 1 /\ resp'[r] # "error"

\* an upstream attempt of the key fetch of request r fails in this step
keyAttemptFails(r, k) ==
  /\ keyParam[r] = k /\ stage[r] = "key" /\ pc[r] = "fetching"
  /\ tries'[r] < tries[r]

\* C38: a key fetch that fails stores no key for its URL, so that a later getKey
\* for the URL issues a new upstream fetch; getKey calls back successfully only
\* with a key that is defined; once a key fetch for a URL has succeeded no later
\* getKey for it issues a fetch; and a getKey that runs while an earlier fetch
\* of the same URL has not yet succeeded issues a fetch of its own.
C38_FetchUnlessKeyStored ==
  [][\A r \in Reqs, k \in KeyURLs :
       /\ keyAttemptFails(r, k) => prevKeys'[k] = prevKeys[k]
       /\ callsGetKey(r, k) =>
            IF prevKeys[k] = "key"
              THEN keyFetches'[r] = keyFetches[r] /\ calls'[r] = calls[r]
              ELSE /\ keyFetches'[r] = keyFetches[r] + 1
                   /\ calls'[r] = calls[r] + 1
                   /\ stage'[r] = "key"
       /\ (keyParam[r] = k /\ resp[r] # "body" /\ resp'[r] = "body") =>
            prevKeys'[k] = "key"
       /\ (prevKeys[k] # "key" /\ prevKeys'[k] = "key") =>
            \E q \in Reqs : keyParam[q] = k /\ stage[q] = "key" /\ pc[q] = "fetching"
                            /\ tries'[q] = tries[q]]_vars

\* an attempt of the key fetch of a has failed and a waits for its retry, no
\* key is stored, and b has called getKey for the same URL and fetches too
C38_Witness ==
  \E a, b \in Reqs :
    /\ a # b /\ keyParam[a] \in KeyURLs /\ keyParam[b] = keyParam[a]
    /\ stage[a] = "key" /\ pc[a] = "waiting" /\ keyFetches[a] = 1
    /\ prevKeys[keyParam[a]] = "empty"
    /\ stage[b] = "key" /\ pc[b] = "fetching" /\ keyFetches[b] = 1

\* C39: on every rewritten playlist ending in #EXT-X-ENDLIST the backward
\* search of the padding step ends without an error, also when no segment has
\* an #EXTINF duration of the nominal 4 seconds, and the segment it selects for
\* the padding has a duration equal to the nominal duration.
C39_SearchEndsOnNominal ==
  PadRequested =>
    /\ ~meThrew
    /\ \A i \in 1..Len(meOut) :
         meOut[i].k = "DISCONTINUITY" =>
           /\ i + 1 <= Len(meOut)
           /\ meOut[i + 1].k = "EXTINF"
           /\ meOut[i + 1].dur = SECONDS_PER_SEGMENT

====
